---- MODULE Spec2Model ----
(***************************************************************************)
(* DocTrans: structure-preserving translation of documentation files.      *)
(*                                                                         *)
(* Text is a sequence of characters.  A character is one of the strings    *)
(* "a", "b", "x" (prose letters), "SP" (a blank), "NL" (a line feed),       *)
(* "TOK" (the 20 characters <<<CELL_SEPARATOR>>> taken as one symbol) and   *)
(* "TAG" (an HTML markup element).                                          *)
(***************************************************************************)
EXTENDS Integers, Sequences, FiniteSets, TLC

(***************************************************************************)
(* Bounds of the model.                                                    *)
(***************************************************************************)
\* longest prose text given to split_text / translate_content
MaxTextLen == 6
\* split_text's default max_tokens (8292 in the source), scaled down
max_tokens == 5
\* MarkdownTextSplitter's chunk_overlap (100 in the source), scaled down
chunk_overlap == 2

(***************************************************************************)
(* State.  Three groups: a call of split_text / translate_content          *)
(* (SpecChunk), a call of _read_notebook / _write_notebook (SpecNb), and a  *)
(* TranslationService working through a list of files (Spec, SpecCall).    *)
(***************************************************************************)
VARIABLES
  c_llm,         \* the backend of the service
  c_text,        \* the prose given
  c_max,         \* max_tokens given to split_text
  c_chunks,      \* chunks: the result of split_text
  c_translated,  \* translated_chunks
  c_result,      \* what translate_content returned
  c_pc           \* "idle", "start", "split_done", "translating", "returned", "raised"

VARIABLES
  n_notebook,    \* the notebook in the input file
  n_current,     \* self._current_notebook
  n_prose,       \* what _read_notebook returned
  n_translated,  \* the translated prose
  n_identity,    \* the translation returned the prose unchanged
  n_result,      \* what _write_notebook did
  n_pc           \* "idle", "start", "read", "translated", "done"

VARIABLES
  llm,                 \* self.llm: the backend the service was built with
  glossary,            \* self.glossary
  selected_files,      \* the files the service is asked to process, in order
  i,                   \* the position in selected_files (0 before the first)
  pc,                  \* "idle", "loop", "resolve", "read", "split", "translate",
                       \* "join", "write", "returned", "raised", "done"
  input_dir,           \* the positions whose input file exists
  output_dirs,         \* the positions whose output directory exists
  output_files,        \* per position, <<>> or <<the document written>>
  current_notebook,    \* self._current_notebook
  content,             \* process_file's content
  chunks,              \* translate_content's chunks
  translated_chunks,   \* translate_content's translated_chunks
  translated_content,  \* process_file's translated_content
  error,               \* the exception process_file is raising
  files_progress,      \* the st.empty() placeholder: <<>> or <<the message shown>>
  attempts,            \* history: the positions process_file was called on
  outcomes,            \* history: how each call of process_file ended
  adapters,            \* history: the format branches run by _read_file/_write_file
  calls                \* history: the invocations of the translation chain

VARIABLES
  p_file_path,      \* process_file's file_path argument, as path components
  p_base_output_dir,\* process_file's base_output_dir argument
  p_folder,         \* process_file's translation_folder argument
  p_output_path,    \* process_file's output_path
  p_dirs,           \* the directories that exist under the output root
  p_written,        \* the paths written
  p_returned,       \* <<>> or <<the path returned>>
  p_pc              \* "idle", "start", "resolved", "returned", "raised"

VARIABLES
  w_files,          \* per worker, the notebook file its process_file call is on
  w_pc,             \* per worker, "idle", "read", "translate", "write", "done"
  w_content,        \* per worker, process_file's translated_content
  w_notebook,       \* self._current_notebook of the one service the workers share
  w_output          \* per worker, <<>> or <<the notebook written>>

VARIABLES
  f_provider,       \* create_llm's provider argument
  f_api_key,        \* create_llm's api_key argument
  f_model_name,     \* create_llm's model_name argument, "None" when not given
  f_llm,            \* what create_llm returned or raised
  f_pc              \* "idle", "start", "done"

VARIABLES
  u_prefix,         \* the URL starts with https://github.com
  u_segments,       \* the segments of the URL after the host, in order
  u_trailing,       \* the URL ends with a slash
  u_url,            \* parse_github_url's url argument, as text
  u_result,         \* what parse_github_url returned or raised
  u_pc              \* "idle", "start", "done"

VARIABLES
  r_tree,           \* the entries of the repository at the branch
  r_folder_path,    \* get_repository_files' folder_path argument
  r_file_types,     \* get_repository_files' file_types argument
  r_contents,       \* the work list: <<>> or the entries still to visit
  r_files,          \* the list files
  r_fetched,        \* history: the paths get_contents was called on
  r_error,          \* "none", or the exception that ended the call
  r_pc              \* "idle", "start", "loop", "returned", "raised"

VARIABLES
  d_repo,            \* the suffixes of the files of the repository folder
  d_input,           \* the files stored under the input directory
  d_listed,          \* what the Translate page's get_downloaded_files returned
  d_output,          \* the files stored under the output directory
  d_uploadable,      \* what the Upload page's get_translated_files returned
  d_pc               \* "idle", "start", "downloaded", "listed"

VARIABLES
  up_selected,       \* the selected local files, in upload order
  up_target,         \* the folder path of the repository URL
  up_delete,         \* the delete-after-upload option
  up_local,          \* the files under the output directory
  up_remote,         \* the repository: what each path holds
  up_i,              \* how many selected files the loop has handled
  up_returns,        \* history: what upload_to_github returned, per file
  up_log,            \* history: the repository API calls
  up_pc              \* "idle", "loop", "done"

VARIABLES
  v_sources,         \* the number of source paragraphs
  v_translated,      \* st.session_state.translated_paragraphs
  v_before,          \* history: the list before the last click
  v_click,           \* history: the last click, its button and index
  v_error,           \* "none", or the exception the last click raised
  v_pc               \* "idle", "shown"

chunk_vars == <<c_llm, c_text, c_max, c_chunks, c_translated, c_result, c_pc>>
nb_vars == <<n_notebook, n_current, n_prose, n_translated, n_identity, n_result, n_pc>>
svc_vars == <<llm, glossary, selected_files, i, pc, input_dir, output_dirs, output_files,
              current_notebook, content, chunks, translated_chunks,
              translated_content, error, files_progress, attempts, outcomes,
              adapters, calls>>
path_vars == <<p_file_path, p_base_output_dir, p_folder, p_output_path, p_dirs,
               p_written, p_returned, p_pc>>
pool_vars == <<w_files, w_pc, w_content, w_notebook, w_output>>
core_vars == <<chunk_vars, nb_vars, svc_vars, path_vars, pool_vars>>
fac_vars == <<f_provider, f_api_key, f_model_name, f_llm, f_pc>>
url_vars == <<u_prefix, u_segments, u_trailing, u_url, u_result, u_pc>>
repo_vars == <<r_tree, r_folder_path, r_file_types, r_contents, r_files, r_fetched,
               r_error, r_pc>>
flow_vars == <<d_repo, d_input, d_listed, d_output, d_uploadable, d_pc>>
up_vars == <<up_selected, up_target, up_delete, up_local, up_remote, up_i, up_returns, up_log, up_pc>>
rev_vars == <<v_sources, v_translated, v_before, v_click, v_error, v_pc>>
page_vars == <<fac_vars, url_vars, repo_vars, flow_vars, up_vars, rev_vars>>
vars == <<core_vars, page_vars>>

\* the group is not in use
ChunkIdle ==
  /\ c_llm = "identity" /\ c_text = <<>> /\ c_max = 0 /\ c_chunks = <<>>
  /\ c_translated = <<>> /\ c_result = <<>> /\ c_pc = "idle"

NbIdle ==
  /\ n_notebook = [metadata |-> "kernelspec", cells |-> <<>>]
  /\ n_current = <<>> /\ n_prose = <<>> /\ n_translated = <<>>
  /\ n_identity = FALSE /\ n_result = [status |-> "none", notebook |-> <<>>]
  /\ n_pc = "idle"

PathIdle ==
  /\ p_file_path = <<>> /\ p_base_output_dir = <<>> /\ p_folder = ""
  /\ p_output_path = <<>> /\ p_dirs = {} /\ p_written = {} /\ p_returned = <<>>
  /\ p_pc = "idle"

PoolIdle ==
  /\ w_files = <<>> /\ w_pc = <<>> /\ w_content = <<>> /\ w_notebook = <<>>
  /\ w_output = <<>>

NoLLM == [status |-> "none", class |-> "", model |-> "", api_key |-> ""]
FacIdle ==
  /\ f_provider = "" /\ f_api_key = "" /\ f_model_name = "" /\ f_llm = NoLLM
  /\ f_pc = "idle"

NoParse == [status |-> "none", owner |-> <<>>, repo |-> <<>>, branch |-> <<>>,
            folder_path |-> <<>>]
UrlIdle ==
  /\ u_prefix = FALSE /\ u_segments = <<>> /\ u_trailing = FALSE /\ u_url = <<>>
  /\ u_result = NoParse /\ u_pc = "idle"

RepoIdle ==
  /\ r_tree = {} /\ r_folder_path = <<>> /\ r_file_types = {} /\ r_contents = <<>>
  /\ r_files = <<>> /\ r_fetched = <<>> /\ r_error = "none" /\ r_pc = "idle"

FlowIdle ==
  /\ d_repo = {} /\ d_input = {} /\ d_listed = {} /\ d_output = {}
  /\ d_uploadable = {} /\ d_pc = "idle"

UpIdle ==
  /\ up_selected = <<>> /\ up_target = <<>> /\ up_delete = FALSE /\ up_local = {}
  /\ up_remote = <<>> /\ up_i = 0 /\ up_returns = <<>> /\ up_log = <<>>
  /\ up_pc = "idle"

RevIdle ==
  /\ v_sources = 0 /\ v_translated = <<>> /\ v_before = <<>>
  /\ v_click = [op |-> "none", index |-> 0] /\ v_error = "none" /\ v_pc = "idle"

\* every group of a page or helper is idle, except group g
PagesIdleExcept(g) ==
  /\ g = "fac" \/ FacIdle
  /\ g = "url" \/ UrlIdle
  /\ g = "repo" \/ RepoIdle
  /\ g = "flow" \/ FlowIdle
  /\ g = "up" \/ UpIdle
  /\ g = "rev" \/ RevIdle

PagesIdle == PagesIdleExcept("")

\* a step of group g leaves the other groups of pages and helpers alone
PagesUnchangedExcept(g) ==
  /\ IF g = "fac" THEN TRUE ELSE UNCHANGED fac_vars
  /\ IF g = "url" THEN TRUE ELSE UNCHANGED url_vars
  /\ IF g = "repo" THEN TRUE ELSE UNCHANGED repo_vars
  /\ IF g = "flow" THEN TRUE ELSE UNCHANGED flow_vars
  /\ IF g = "up" THEN TRUE ELSE UNCHANGED up_vars
  /\ IF g = "rev" THEN TRUE ELSE UNCHANGED rev_vars

NoError == [kind |-> "none", message |-> ""]

SvcIdle ==
  /\ llm = "identity" /\ glossary = <<>> /\ selected_files = <<>> /\ i = 0
  /\ pc = "idle"
  /\ input_dir = {} /\ output_dirs = {} /\ output_files = <<>>
  /\ current_notebook = <<>> /\ content = <<>> /\ chunks = <<>>
  /\ translated_chunks = <<>> /\ translated_content = <<>> /\ error = NoError
  /\ files_progress = <<>> /\ attempts = <<>> /\ outcomes = <<>>
  /\ adapters = <<>> /\ calls = <<>>

(***************************************************************************)
(* Strings.                                                                *)
(***************************************************************************)
Letters == {"a", "b"}
Whitespace == {"SP", "NL"}
ProseChars == Letters \cup Whitespace

RECURSIVE SeqsUpTo(_, _)
\* every sequence over S of length at most n
SeqsUpTo(S, n) ==
  IF n = 0 THEN {<<>>}
  ELSE LET shorter == SeqsUpTo(S, n - 1)
       IN shorter \cup {Append(s, c) : s \in shorter, c \in S}

RECURSIVE LStrip(_)
LStrip(s) == IF s # <<>> /\ Head(s) \in Whitespace THEN LStrip(Tail(s)) ELSE s

RECURSIVE RStrip(_)
RStrip(s) ==
  IF s # <<>> /\ s[Len(s)] \in Whitespace
  THEN RStrip(SubSeq(s, 1, Len(s) - 1))
  ELSE s

\* str.strip()
Strip(s) == RStrip(LStrip(s))

RECURSIVE Find(_, _, _)
\* index of the leftmost occurrence of sep in s at or after from, 0 if none
Find(s, sep, from) ==
  IF from + Len(sep) - 1 > Len(s) THEN 0
  ELSE IF SubSeq(s, from, from + Len(sep) - 1) = sep THEN from
  ELSE Find(s, sep, from + 1)

RECURSIVE StrSplit(_, _)
\* str.split(sep) / re.split of a literal: leftmost non-overlapping matches
StrSplit(s, sep) ==
  LET p == Find(s, sep, 1)
  IN IF p = 0 THEN <<s>>
     ELSE <<SubSeq(s, 1, p - 1)>> \o StrSplit(SubSeq(s, p + Len(sep), Len(s)), sep)

RECURSIVE StrJoin(_, _)
\* sep.join(parts)
StrJoin(parts, sep) ==
  IF parts = <<>> THEN <<>>
  ELSE IF Len(parts) = 1 THEN parts[1]
  ELSE parts[1] \o sep \o StrJoin(Tail(parts), sep)

NonEmpty(s) == s # <<>>

(***************************************************************************)
(* split_text: MarkdownTextSplitter(chunk_size, chunk_overlap=100), a      *)
(* RecursiveCharacterTextSplitter with keep_separator and strip_whitespace *)
(* set.  Over ProseChars the markdown separators that can match are the    *)
(* blank line, the line feed, the blank and the empty separator.           *)
(***************************************************************************)
MarkdownSeparators == << <<"NL", "NL">>, <<"NL">>, <<"SP">>, <<>> >>

\* _split_text_with_regex, keep_separator: every separator starts the next piece
SplitWithRegex(text, separator) ==
  IF separator = <<>>
  THEN [k \in 1..Len(text) |-> <<text[k]>>]
  ELSE LET ps == StrSplit(text, separator)
       IN SelectSeq([k \in 1..Len(ps) |-> IF k = 1 THEN ps[1] ELSE separator \o ps[k]],
                    NonEmpty)

\* _join_docs with the empty separator: the stripped text, <<>> standing for None
JoinDocs(docs) == Strip(StrJoin(docs, <<>>))

RECURSIVE DropOverlap(_, _, _, _)
\* the while loop of _merge_splits: pop pieces from the front of current_doc
DropOverlap(current_doc, total, len, chunk_size) ==
  IF total > chunk_overlap \/ (total + len > chunk_size /\ total > 0)
  THEN DropOverlap(Tail(current_doc), total - Len(Head(current_doc)), len, chunk_size)
  ELSE [current_doc |-> current_doc, total |-> total]

RECURSIVE MergeLoop(_, _, _, _, _, _)
MergeLoop(splits, k, docs, current_doc, total, chunk_size) ==
  IF k > Len(splits)
  THEN IF JoinDocs(current_doc) # <<>> THEN Append(docs, JoinDocs(current_doc)) ELSE docs
  ELSE LET d == splits[k]
           over == total + Len(d) > chunk_size
           flush == over /\ current_doc # <<>>
           docs1 == IF flush /\ JoinDocs(current_doc) # <<>>
                    THEN Append(docs, JoinDocs(current_doc))
                    ELSE docs
           kept == IF flush
                   THEN DropOverlap(current_doc, total, Len(d), chunk_size)
                   ELSE [current_doc |-> current_doc, total |-> total]
       IN MergeLoop(splits, k + 1, docs1, Append(kept.current_doc, d),
                    kept.total + Len(d), chunk_size)

\* _merge_splits(splits, separator = "")
MergeSplits(splits, chunk_size) == MergeLoop(splits, 1, <<>>, <<>>, 0, chunk_size)

RECURSIVE FirstSeparator(_, _, _)
\* the first separator that is empty or occurs in text
FirstSeparator(text, separators, k) ==
  IF k >= Len(separators) THEN Len(separators)
  ELSE IF separators[k] = <<>> \/ Find(text, separators[k], 1) # 0 THEN k
  ELSE FirstSeparator(text, separators, k + 1)

RECURSIVE RecursiveSplit(_, _, _)
RECURSIVE SplitLoop(_, _, _, _, _, _)
\* the loop of _split_text over the pieces
SplitLoop(splits, k, good_splits, final_chunks, new_separators, chunk_size) ==
  IF k > Len(splits)
  THEN IF good_splits # <<>>
       THEN final_chunks \o MergeSplits(good_splits, chunk_size)
       ELSE final_chunks
  ELSE LET s == splits[k]
       IN IF Len(s) < chunk_size
          THEN SplitLoop(splits, k + 1, Append(good_splits, s), final_chunks,
                         new_separators, chunk_size)
          ELSE LET merged == IF good_splits # <<>>
                             THEN final_chunks \o MergeSplits(good_splits, chunk_size)
                             ELSE final_chunks
                   other == IF new_separators = <<>>
                            THEN <<s>>
                            ELSE RecursiveSplit(s, new_separators, chunk_size)
               IN SplitLoop(splits, k + 1, <<>>, merged \o other, new_separators,
                            chunk_size)

\* RecursiveCharacterTextSplitter._split_text
RecursiveSplit(text, separators, chunk_size) ==
  LET first == FirstSeparator(text, separators, 1)
      separator == separators[first]
      new_separators == IF separator = <<>> THEN <<>>
                        ELSE SubSeq(separators, first + 1, Len(separators))
  IN SplitLoop(SplitWithRegex(text, separator), 1, <<>>, <<>>, new_separators,
               chunk_size)

\* split_text without the size bound: the whole text is one chunk
split_text_unbounded(text, max) ==
  [ok |-> chunk_overlap <= max,
   chunks |-> IF chunk_overlap <= max /\ Strip(text) # <<>> THEN <<Strip(text)>> ELSE <<>>]

\* split_text losing the last chunk
split_text_drop_last(text, max) ==
  LET all == RecursiveSplit(text, MarkdownSeparators, max)
  IN [ok |-> chunk_overlap <= max,
      chunks |-> IF chunk_overlap <= max /\ all # <<>>
                 THEN SubSeq(all, 1, Len(all) - 1)
                 ELSE <<>>]

\* TranslationService.split_text: the splitter cannot be built (ValueError) when
\* chunk_overlap is larger than chunk_size; else the chunks are returned
split_text(text, max) ==
  IF chunk_overlap > max
  THEN [ok |-> FALSE, chunks |-> <<>>]
  ELSE [ok |-> TRUE, chunks |-> RecursiveSplit(text, MarkdownSeparators, max)]

\* the join of translate_content
JoinChunks(translated) == StrJoin(translated, <<"NL">>)

(***************************************************************************)
(* The translation backend: translation_chain.invoke(chunk).               *)
(* An "identity" backend returns the chunk; a "stochastic" one returns any *)
(* text, or fails.                                                         *)
(***************************************************************************)
LLMs == {"identity", "stochastic"}
Responses(llm_kind, chunk) ==
  IF llm_kind = "identity"
  THEN {[ok |-> TRUE, text |-> chunk]}
  ELSE {[ok |-> TRUE, text |-> chunk], [ok |-> TRUE, text |-> <<"x">>],
        [ok |-> FALSE, text |-> <<>>]}

ChunkInit ==
  /\ c_llm \in LLMs
  /\ c_text \in SeqsUpTo(ProseChars, MaxTextLen)
  /\ c_max \in {chunk_overlap - 1, max_tokens - 1, max_tokens}
  /\ c_chunks = <<>>
  /\ c_translated = <<>>
  /\ c_result = <<>>
  /\ c_pc = "start"

\* a direct call split_text(c_text, c_max)
SplitTextCall ==
  /\ c_pc = "start"
  /\ LET r == split_text(c_text, c_max)
     IN IF r.ok
        THEN c_pc' = "split_done" /\ c_chunks' = r.chunks
        ELSE c_pc' = "raised" /\ UNCHANGED c_chunks
  /\ UNCHANGED <<c_llm, c_text, c_max, c_translated, c_result>>
  /\ UNCHANGED <<nb_vars, svc_vars, path_vars, pool_vars, page_vars>>

\* translate_content(c_text), line 43: chunks = self.split_text(content)
TranslateContentSplit ==
  /\ c_pc = "start"
  /\ c_max = max_tokens
  /\ c_chunks' = split_text(c_text, max_tokens).chunks
  /\ c_pc' = "translating"
  /\ UNCHANGED <<c_llm, c_text, c_max, c_translated, c_result>>
  /\ UNCHANGED <<nb_vars, svc_vars, path_vars, pool_vars, page_vars>>

\* translate_content, lines 46-48: one invocation of the chain for the next chunk
TranslateContentInvoke ==
  /\ c_pc = "translating"
  /\ Len(c_translated) < Len(c_chunks)
  /\ \E r \in Responses(c_llm, c_chunks[Len(c_translated) + 1]) :
       IF r.ok
       THEN c_pc' = c_pc /\ c_translated' = Append(c_translated, r.text)
       ELSE c_pc' = "raised" /\ UNCHANGED c_translated
  /\ UNCHANGED <<c_llm, c_text, c_max, c_chunks, c_result>>
  /\ UNCHANGED <<nb_vars, svc_vars, path_vars, pool_vars, page_vars>>

\* translate_content, line 50: return "\n".join(translated_chunks)
TranslateContentReturn ==
  /\ c_pc = "translating"
  /\ Len(c_translated) = Len(c_chunks)
  /\ c_result' = JoinChunks(c_translated)
  /\ c_pc' = "returned"
  /\ UNCHANGED <<c_llm, c_text, c_max, c_chunks, c_translated>>
  /\ UNCHANGED <<nb_vars, svc_vars, path_vars, pool_vars, page_vars>>

ChunkNext ==
  \/ SplitTextCall
  \/ TranslateContentSplit
  \/ TranslateContentInvoke
  \/ TranslateContentReturn

InitChunk == ChunkInit /\ NbIdle /\ SvcIdle /\ PathIdle /\ PoolIdle /\ PagesIdle

SpecChunk == InitChunk /\ [][ChunkNext]_vars

(***************************************************************************)
(* Notebooks.  A cell has a type, a source and the rest of its fields      *)
(* (metadata, outputs, attachments) taken as one value "metadata".         *)
(* _current_notebook is <<>> while the attribute is not set, else <<nb>>.  *)
(***************************************************************************)
\* most cells of a notebook
MaxCells == 3

CellSeparator == <<"NL", "TOK", "NL">>

MarkdownSources == {<<>>, <<"a">>, <<"b">>, <<"a">> \o CellSeparator \o <<"b">>}
MarkdownCells ==
  [cell_type : {"markdown"}, source : MarkdownSources, metadata : {"{}", "tags"}]
OtherCells == [cell_type : {"code", "raw"}, source : {<<"c">>}, metadata : {"outputs"}]
Cells == MarkdownCells \cup OtherCells
Notebooks == [metadata : {"kernelspec"}, cells : SeqsUpTo(Cells, MaxCells)]

IsMarkdown(cell) == cell.cell_type = "markdown"

\* the sources of all the cells, whatever their type
AllContents(cells) == [k \in 1..Len(cells) |-> cells[k].source]

\* the sources of the markdown cells, in cell order (lines 125-128)
MarkdownContents(cells) ==
  LET md == SelectSeq(cells, IsMarkdown)
  IN [k \in 1..Len(md) |-> md[k].source]

\* _read_notebook: the structure kept in self._current_notebook and the prose
read_notebook(notebook) ==
  [current_notebook |-> <<notebook>>,
   prose |-> StrJoin(MarkdownContents(notebook.cells), CellSeparator)]

\* nbformat.v4.new_markdown_cell(source): a fresh cell, nothing but the source given
new_markdown_cell(source) ==
  [cell_type |-> "markdown", source |-> source, metadata |-> "{}"]

RECURSIVE WriteLoop(_, _, _, _, _, _)
\* the loop of _write_notebook (lines 148-158); new_cell is <<>> while unbound
WriteLoop(cells, k, translated_cells, markdown_idx, new_cell, out) ==
  IF k > Len(cells) THEN [status |-> "written", cells |-> out]
  ELSE LET cell == cells[k]
           take == IsMarkdown(cell) /\ markdown_idx < Len(translated_cells)
           cell1 == IF IsMarkdown(cell)
                    THEN IF take
                         THEN <<new_markdown_cell(translated_cells[markdown_idx + 1])>>
                         ELSE new_cell
                    ELSE <<cell>>
           idx1 == IF take THEN markdown_idx + 1 ELSE markdown_idx
       IN IF cell1 = <<>>
          THEN [status |-> "UnboundLocalError", cells |-> out]
          ELSE WriteLoop(cells, k + 1, translated_cells, idx1, cell1,
                         Append(out, cell1[1]))

\* _write_notebook: what is written to output_path, <<>> when nothing is
write_notebook(notebook_attr, text) ==
  IF notebook_attr = <<>>
  THEN [status |-> "ValueError", notebook |-> <<>>]
  ELSE LET nb == notebook_attr[1]
           r == WriteLoop(nb.cells, 1, StrSplit(text, CellSeparator),
                          0, <<>>, <<>>)
       IN IF r.status = "written"
          THEN [status |-> "written",
                notebook |-> <<[metadata |-> nb.metadata, cells |-> r.cells]>>]
          ELSE [status |-> r.status, notebook |-> <<>>]

\* translated prose handed to _write_notebook: k segments "x" joined by the separator
SegmentTexts == {<<>>} \cup
  {StrJoin([j \in 1..k |-> <<"x">>], CellSeparator) : k \in 1..(MaxCells + 1)}

NbInit ==
  /\ n_notebook \in Notebooks
  /\ n_current = <<>>
  /\ n_prose = <<>>
  /\ n_translated = <<>>
  /\ n_identity = FALSE
  /\ n_result = [status |-> "none", notebook |-> <<>>]
  /\ n_pc = "start"

\* _read_notebook(file_path)
NbRead ==
  /\ n_pc = "start"
  /\ LET r == read_notebook(n_notebook)
     IN n_current' = r.current_notebook /\ n_prose' = r.prose
  /\ n_pc' = "read"
  /\ UNCHANGED <<n_notebook, n_translated, n_identity, n_result>>
  /\ UNCHANGED <<chunk_vars, svc_vars, path_vars, pool_vars, page_vars>>

\* the identity translation of the prose
NbTranslateIdentity ==
  /\ n_pc = "read"
  /\ n_translated' = n_prose
  /\ n_identity' = TRUE
  /\ n_pc' = "translated"
  /\ UNCHANGED <<n_notebook, n_current, n_prose, n_result>>
  /\ UNCHANGED <<chunk_vars, svc_vars, path_vars, pool_vars, page_vars>>

\* any other translation of the prose
NbTranslateOther ==
  /\ n_pc = "read"
  /\ n_translated' \in SegmentTexts
  /\ n_identity' = FALSE
  /\ n_pc' = "translated"
  /\ UNCHANGED <<n_notebook, n_current, n_prose, n_result>>
  /\ UNCHANGED <<chunk_vars, svc_vars, path_vars, pool_vars, page_vars>>

\* _write_notebook(output_path, translated_content)
NbWrite ==
  /\ n_pc = "translated"
  /\ n_result' = write_notebook(n_current, n_translated)
  /\ n_pc' = "done"
  /\ UNCHANGED <<n_notebook, n_current, n_prose, n_translated, n_identity>>
  /\ UNCHANGED <<chunk_vars, svc_vars, path_vars, pool_vars, page_vars>>

\* _write_notebook called on a service that has read no notebook
NbWriteUnread ==
  /\ n_pc = "start"
  /\ n_translated' \in SegmentTexts
  /\ n_result' = write_notebook(n_current, n_translated')
  /\ n_pc' = "done"
  /\ UNCHANGED <<n_notebook, n_current, n_prose, n_identity>>
  /\ UNCHANGED <<chunk_vars, svc_vars, path_vars, pool_vars, page_vars>>

NbNext ==
  \/ NbRead
  \/ NbTranslateIdentity
  \/ NbTranslateOther
  \/ NbWrite
  \/ NbWriteUnread

InitNb == NbInit /\ ChunkIdle /\ SvcIdle /\ PathIdle /\ PoolIdle /\ PagesIdle

SpecNb == InitNb /\ [][NbNext]_vars

(***************************************************************************)
(* Files.  A file is its suffix and its content as the matching reader     *)
(* sees it: front matter and body (markdown), body (text, HTML), notebook. *)
(***************************************************************************)
\* most files of a batch of the Translate page
MaxBatch == 2
\* most calls of process_file in a row on one service
MaxCalls == 2

\* the suffixes _read_file has a branch for (lines 88-100)
SupportedSuffixes == {".md", ".mdx", ".rst", ".rstx", ".html", ".py", ".ipynb"}
\* the suffixes get_downloaded_files lists (2_Translate_Files.py, line 58)
ListedSuffixes == {".md", ".mdx", ".rst", ".rstx", ".py", ".html"}
Suffixes == SupportedSuffixes \cup {".MD", ".IPYNB", ".docx", ".DOCX"}

\* str.lower() on a suffix
Lower(suffix) ==
  CASE suffix = ".MD" -> ".md"
    [] suffix = ".IPYNB" -> ".ipynb"
    [] suffix = ".DOCX" -> ".docx"
    [] OTHER -> suffix

FrontMatter == << <<"title", "X">> >>
ShortBody == <<"a", "NL">>
LongBody == <<"a", "SP", "b", "SP", "a", "SP", "b">>
HtmlBody == <<"TAG", "a", "TAG">>
NoNotebook == [metadata |-> "kernelspec", cells |-> <<>>]
PlainNotebook ==
  [metadata |-> "kernelspec",
   cells |-> << [cell_type |-> "markdown", source |-> <<"a">>, metadata |-> "tags"],
                [cell_type |-> "code", source |-> <<"c">>, metadata |-> "outputs"],
                [cell_type |-> "markdown", source |-> <<"b">>, metadata |-> "{}"] >>]

File(suffix, wellformed, metadata, body, notebook) ==
  [suffix |-> suffix, wellformed |-> wellformed, metadata |-> metadata,
   body |-> body, notebook |-> notebook]

FilesOf(suffix) ==
  CASE Lower(suffix) = ".md" ->
         {File(suffix, TRUE, FrontMatter, ShortBody, NoNotebook),
          File(suffix, TRUE, <<>>, LongBody, NoNotebook),
          File(suffix, FALSE, <<>>, <<>>, NoNotebook)}
    [] Lower(suffix) = ".mdx" ->
         {File(suffix, TRUE, FrontMatter, ShortBody, NoNotebook)}
    [] Lower(suffix) = ".ipynb" ->
         {File(suffix, TRUE, <<>>, <<>>, PlainNotebook),
          File(suffix, FALSE, <<>>, <<>>, NoNotebook)}
    [] Lower(suffix) = ".html" ->
         {File(suffix, TRUE, <<>>, HtmlBody, NoNotebook)}
    [] Lower(suffix) \in {".rst", ".py"} ->
         {File(suffix, TRUE, <<>>, LongBody, NoNotebook)}
    [] OTHER ->
         {File(suffix, TRUE, <<>>, ShortBody, NoNotebook)}

AllFiles == UNION {FilesOf(suffix) : suffix \in Suffixes}
\* get_downloaded_files: the files of the input directory with a listed suffix
ListedFiles == UNION {FilesOf(suffix) : suffix \in ListedSuffixes}

\* the non-empty lists of at most n files
Batches(files, n) == SeqsUpTo(files, n) \ {<<>>}

(***************************************************************************)
(* _read_file and _write_file.                                             *)
(***************************************************************************)
IsNotTag(c) == c # "TAG"
\* UnstructuredHTMLLoader(...).load()[0].page_content: the text without the markup
PageContent(body) == SelectSeq(body, IsNotTag)

ReadResult(status, message, format, text, notebook) ==
  [status |-> status, message |-> message, format |-> format, content |-> text,
   current_notebook |-> notebook]

\* _read_file with a plain-text fallback for unknown suffixes
read_file_fallback(file, notebook_attr) ==
  LET suffix == Lower(file.suffix)
  IN IF suffix \in {".md", ".mdx"}
     THEN IF file.wellformed
          THEN ReadResult("ok", "", "markdown", Strip(file.body), notebook_attr)
          ELSE ReadResult("ParseError", "", "markdown", <<>>, notebook_attr)
     ELSE IF suffix = ".html"
     THEN ReadResult("ok", "", "html", PageContent(file.body), notebook_attr)
     ELSE IF suffix = ".ipynb"
     THEN IF file.wellformed
          THEN ReadResult("ok", "", "notebook", read_notebook(file.notebook).prose,
                          read_notebook(file.notebook).current_notebook)
          ELSE ReadResult("ParseError", "", "notebook", <<>>, notebook_attr)
     ELSE ReadResult("ok", "", "text", file.body, notebook_attr)

\* _read_file whose notebook branch extracts the prose without storing the
\* notebook in self._current_notebook
read_file_stale(file, notebook_attr) ==
  LET suffix == Lower(file.suffix)
  IN IF suffix \in {".md", ".mdx"}
     THEN IF file.wellformed
          THEN ReadResult("ok", "", "markdown", Strip(file.body), notebook_attr)
          ELSE ReadResult("ParseError", "", "markdown", <<>>, notebook_attr)
     ELSE IF suffix \in {".rst", ".rstx"}
     THEN ReadResult("ok", "", "text", file.body, notebook_attr)
     ELSE IF suffix = ".html"
     THEN ReadResult("ok", "", "html", PageContent(file.body), notebook_attr)
     ELSE IF suffix = ".py"
     THEN ReadResult("ok", "", "text", file.body, notebook_attr)
     ELSE IF suffix = ".ipynb"
     THEN IF file.wellformed
          THEN ReadResult("ok", "", "notebook", read_notebook(file.notebook).prose,
                          notebook_attr)
          ELSE ReadResult("ParseError", "", "notebook", <<>>, notebook_attr)
     ELSE ReadResult("ValueError", suffix, "none", <<>>, notebook_attr)

\* _read_file (lines 85-103); notebook_attr is self._current_notebook before the call
read_file(file, notebook_attr) ==
  LET suffix == Lower(file.suffix)
  IN IF suffix \in {".md", ".mdx"}
     THEN IF file.wellformed
          THEN ReadResult("ok", "", "markdown", Strip(file.body), notebook_attr)
          ELSE ReadResult("ParseError", "", "markdown", <<>>, notebook_attr)
     ELSE IF suffix \in {".rst", ".rstx"}
     THEN ReadResult("ok", "", "text", file.body, notebook_attr)
     ELSE IF suffix = ".html"
     THEN ReadResult("ok", "", "html", PageContent(file.body), notebook_attr)
     ELSE IF suffix = ".py"
     THEN ReadResult("ok", "", "text", file.body, notebook_attr)
     ELSE IF suffix = ".ipynb"
     THEN IF file.wellformed
          THEN ReadResult("ok", "", "notebook", read_notebook(file.notebook).prose,
                          read_notebook(file.notebook).current_notebook)
          ELSE ReadResult("ParseError", "", "notebook", <<>>, notebook_attr)
     ELSE ReadResult("ValueError", suffix, "none", <<>>, notebook_attr)

Document(format, metadata, body, notebook) ==
  [format |-> format, metadata |-> metadata, body |-> body, notebook |-> notebook]

\* _write_file (lines 105-114): the format branch is chosen by the suffix as given
write_file(notebook_attr, text, suffix) ==
  IF suffix \in {".md", ".mdx"}
  THEN [status |-> "written", format |-> "markdown",
        doc |-> <<Document("markdown", <<>>, RStrip(text), NoNotebook)>>]
  ELSE IF suffix = ".ipynb"
  THEN LET r == write_notebook(notebook_attr, text)
       IN [status |-> r.status, format |-> "notebook",
           doc |-> IF r.status = "written"
                   THEN <<Document("notebook", <<>>, <<>>, r.notebook[1])>>
                   ELSE <<>>]
  ELSE [status |-> "written", format |-> "text",
        doc |-> <<Document("text", <<>>, text, NoNotebook)>>]

(***************************************************************************)
(* process_file, step by step, and its callers.                            *)
(***************************************************************************)
N == Len(selected_files)
current_file == selected_files[i]

\* the glossary argument of TranslationService(llm, glossary): None (an empty
\* YAML file), the empty mapping, or a mapping of terms
GlossaryArgs ==
  {[none |-> TRUE, terms |-> <<>>], [none |-> FALSE, terms |-> <<>>],
   [none |-> FALSE, terms |-> << <<"a", "x">> >>]}
\* __init__, line 17: self.glossary = glossary or {}
GlossaryOrEmpty(g) == IF g.none THEN <<>> ELSE g.terms

SvcInit(batches) ==
  /\ llm \in LLMs
  /\ glossary \in {GlossaryOrEmpty(g) : g \in GlossaryArgs}
  /\ selected_files \in batches
  /\ i = 0
  /\ pc = "loop"
  /\ input_dir = 1..Len(selected_files)
  /\ output_dirs = {}
  /\ output_files = [k \in 1..Len(selected_files) |-> <<>>]
  /\ current_notebook = <<>>
  /\ content = <<>>
  /\ chunks = <<>>
  /\ translated_chunks = <<>>
  /\ translated_content = <<>>
  /\ error = NoError
  /\ files_progress = <<>>
  /\ attempts = <<>>
  /\ outcomes = <<>>
  /\ adapters = <<>>
  /\ calls = <<>>

\* the caller takes the next file and calls process_file on it
\* (2_Translate_Files.py, lines 179-188)
LoopNext ==
  /\ pc = "loop"
  /\ i < N
  /\ i' = i + 1
  /\ pc' = "resolve"
  /\ attempts' = Append(attempts, i + 1)
  /\ UNCHANGED <<llm, glossary, selected_files, input_dir, output_dirs, output_files,
                 current_notebook, content, chunks, translated_chunks,
                 translated_content, error, files_progress, outcomes, adapters,
                 calls>>
  /\ UNCHANGED <<chunk_vars, nb_vars, path_vars, pool_vars, page_vars>>

\* process_file, lines 60-75: the output path, os.makedirs of its parent
ResolveOutputPath ==
  /\ pc = "resolve"
  /\ output_dirs' = output_dirs \cup {i}
  /\ content' = <<>>
  /\ chunks' = <<>>
  /\ translated_chunks' = <<>>
  /\ translated_content' = <<>>
  /\ error' = NoError
  /\ pc' = "read"
  /\ UNCHANGED <<llm, glossary, selected_files, i, input_dir, output_files, current_notebook,
                 files_progress, attempts, outcomes, adapters, calls>>
  /\ UNCHANGED <<chunk_vars, nb_vars, path_vars, pool_vars, page_vars>>

\* process_file, line 78: content = self._read_file(file_path)
ReadFile ==
  /\ pc = "read"
  /\ LET r == read_file(current_file, current_notebook)
     IN /\ current_notebook' = r.current_notebook
        /\ adapters' = IF r.format = "none" THEN adapters
                       ELSE Append(adapters, [file |-> i, op |-> "read", format |-> r.format])
        /\ IF r.status = "ok"
           THEN /\ content' = r.content
                /\ pc' = "split"
                /\ UNCHANGED <<error, outcomes>>
           ELSE /\ error' = [kind |-> r.status, message |-> r.message]
                /\ outcomes' = Append(outcomes, [status |-> "raised", kind |-> r.status,
                                                 message |-> r.message])
                /\ pc' = "raised"
                /\ UNCHANGED content
  /\ UNCHANGED <<llm, glossary, selected_files, i, input_dir, output_dirs, output_files, chunks,
                 translated_chunks, translated_content, files_progress, attempts,
                 calls>>
  /\ UNCHANGED <<chunk_vars, nb_vars, path_vars, pool_vars, page_vars>>

\* translate_content, line 43: chunks = self.split_text(content)
SplitContent ==
  /\ pc = "split"
  /\ chunks' = split_text(content, max_tokens).chunks
  /\ translated_chunks' = <<>>
  /\ pc' = "translate"
  /\ UNCHANGED <<llm, glossary, selected_files, i, input_dir, output_dirs, output_files,
                 current_notebook, content, translated_content, error,
                 files_progress, attempts, outcomes, adapters, calls>>
  /\ UNCHANGED <<chunk_vars, nb_vars, path_vars, pool_vars, page_vars>>

\* the chain invoked again on a chunk whose invocation failed
InvokeChainRetry ==
  /\ pc = "translate"
  /\ Len(translated_chunks) < Len(chunks)
  /\ LET chunk == chunks[Len(translated_chunks) + 1]
     IN \E r \in Responses(llm, chunk) :
          /\ calls' = Append(calls, [file |-> i, chunk |-> chunk,
                                     glossary |-> glossary, response |-> r])
          /\ translated_chunks' = IF r.ok THEN Append(translated_chunks, r.text)
                                  ELSE translated_chunks
  /\ UNCHANGED <<llm, glossary, selected_files, i, pc, input_dir, output_dirs,
                 output_files, current_notebook, content, translated_content,
                 error, files_progress, attempts, outcomes, adapters, chunks>>
  /\ UNCHANGED <<chunk_vars, nb_vars, path_vars, pool_vars, page_vars>>

\* the chunk kept untranslated when its invocation failed, and the loop going on
InvokeChainSubstitute ==
  /\ pc = "translate"
  /\ Len(translated_chunks) < Len(chunks)
  /\ LET chunk == chunks[Len(translated_chunks) + 1]
     IN \E r \in Responses(llm, chunk) :
          /\ calls' = Append(calls, [file |-> i, chunk |-> chunk,
                                     glossary |-> glossary, response |-> r])
          /\ translated_chunks' = Append(translated_chunks,
                                         IF r.ok THEN r.text ELSE chunk)
  /\ UNCHANGED <<llm, glossary, selected_files, i, pc, input_dir, output_dirs,
                 output_files, current_notebook, content, translated_content,
                 error, files_progress, attempts, outcomes, adapters, chunks>>
  /\ UNCHANGED <<chunk_vars, nb_vars, path_vars, pool_vars, page_vars>>

\* the chain invoked with a prompt that leaves the glossary out
InvokeChainNoGlossary ==
  /\ pc = "translate"
  /\ Len(translated_chunks) < Len(chunks)
  /\ LET chunk == chunks[Len(translated_chunks) + 1]
     IN \E r \in Responses(llm, chunk) :
          /\ calls' = Append(calls, [file |-> i, chunk |-> chunk,
                                     glossary |-> <<>>, response |-> r])
          /\ IF r.ok
             THEN /\ translated_chunks' = Append(translated_chunks, r.text)
                  /\ UNCHANGED <<pc, error, outcomes>>
             ELSE /\ error' = [kind |-> "BackendError", message |-> ""]
                  /\ outcomes' = Append(outcomes, [status |-> "raised",
                                                   kind |-> "BackendError",
                                                   message |-> ""])
                  /\ pc' = "raised"
                  /\ UNCHANGED translated_chunks
  /\ UNCHANGED <<llm, glossary, selected_files, i, input_dir, output_dirs, output_files,
                 current_notebook, content, chunks, translated_content,
                 files_progress, attempts, adapters>>
  /\ UNCHANGED <<chunk_vars, nb_vars, path_vars, pool_vars, page_vars>>

\* translate_content, lines 46-48: the chain is invoked on the next chunk
InvokeChain ==
  /\ pc = "translate"
  /\ Len(translated_chunks) < Len(chunks)
  /\ LET chunk == chunks[Len(translated_chunks) + 1]
     IN \E r \in Responses(llm, chunk) :
          /\ calls' = Append(calls, [file |-> i, chunk |-> chunk,
                                     glossary |-> glossary, response |-> r])
          /\ IF r.ok
             THEN /\ translated_chunks' = Append(translated_chunks, r.text)
                  /\ UNCHANGED <<pc, error, outcomes>>
             ELSE /\ error' = [kind |-> "BackendError", message |-> ""]
                  /\ outcomes' = Append(outcomes, [status |-> "raised",
                                                   kind |-> "BackendError",
                                                   message |-> ""])
                  /\ pc' = "raised"
                  /\ UNCHANGED translated_chunks
  /\ UNCHANGED <<llm, glossary, selected_files, i, input_dir, output_dirs, output_files,
                 current_notebook, content, chunks, translated_content,
                 files_progress, attempts, adapters>>
  /\ UNCHANGED <<chunk_vars, nb_vars, path_vars, pool_vars, page_vars>>

\* the join made before every chunk has been translated
JoinTranslatedEarly ==
  /\ pc = "translate"
  /\ translated_content' = JoinChunks(translated_chunks)
  /\ pc' = "write"
  /\ UNCHANGED <<llm, glossary, selected_files, i, input_dir, output_dirs, output_files,
                 current_notebook, content, chunks, translated_chunks, error,
                 files_progress, attempts, outcomes, adapters, calls>>
  /\ UNCHANGED <<chunk_vars, nb_vars, path_vars, pool_vars, page_vars>>

\* translate_content, line 50: return "\n".join(translated_chunks)
JoinTranslated ==
  /\ pc = "translate"
  /\ Len(translated_chunks) = Len(chunks)
  /\ translated_content' = JoinChunks(translated_chunks)
  /\ pc' = "write"
  /\ UNCHANGED <<llm, glossary, selected_files, i, input_dir, output_dirs, output_files,
                 current_notebook, content, chunks, translated_chunks, error,
                 files_progress, attempts, outcomes, adapters, calls>>
  /\ UNCHANGED <<chunk_vars, nb_vars, path_vars, pool_vars, page_vars>>

\* process_file, lines 82-83: self._write_file(...); return str(output_path)
WriteFile ==
  /\ pc = "write"
  /\ LET r == write_file(current_notebook, translated_content, current_file.suffix)
     IN /\ adapters' = Append(adapters, [file |-> i, op |-> "write", format |-> r.format])
        /\ IF r.status = "written"
           THEN /\ output_files' = [output_files EXCEPT ![i] = r.doc]
                /\ outcomes' = Append(outcomes, [status |-> "returned", kind |-> "none",
                                                 message |-> ""])
                /\ pc' = "returned"
                /\ UNCHANGED error
           ELSE /\ error' = [kind |-> r.status, message |-> ""]
                /\ outcomes' = Append(outcomes, [status |-> "raised", kind |-> r.status,
                                                 message |-> ""])
                /\ pc' = "raised"
                /\ UNCHANGED output_files
  /\ UNCHANGED <<llm, glossary, selected_files, i, input_dir, output_dirs, current_notebook,
                 content, chunks, translated_chunks, translated_content,
                 files_progress, attempts, calls>>
  /\ UNCHANGED <<chunk_vars, nb_vars, path_vars, pool_vars, page_vars>>

ProcessFile ==
  \/ ResolveOutputPath
  \/ ReadFile
  \/ SplitContent
  \/ InvokeChain
  \/ JoinTranslated
  \/ WriteFile

\* the except branch ending the batch instead of going on
OnErrorAbort ==
  /\ pc = "raised"
  /\ files_progress' = <<[kind |-> "error", file |-> i, error |-> error]>>
  /\ pc' = "done"
  /\ UNCHANGED <<llm, glossary, selected_files, i, input_dir, output_dirs, output_files,
                 current_notebook, content, chunks, translated_chunks,
                 translated_content, error, attempts, outcomes, adapters, calls>>
  /\ UNCHANGED <<chunk_vars, nb_vars, path_vars, pool_vars, page_vars>>

\* the except branch cleaning the input file up, as the success branch does
OnErrorDelete ==
  /\ pc = "raised"
  /\ files_progress' = <<[kind |-> "error", file |-> i, error |-> error]>>
  /\ input_dir' = input_dir \ {i}
  /\ pc' = "loop"
  /\ UNCHANGED <<llm, glossary, selected_files, i, output_dirs, output_files,
                 current_notebook, content, chunks, translated_chunks,
                 translated_content, error, attempts, outcomes, adapters, calls>>
  /\ UNCHANGED <<chunk_vars, nb_vars, path_vars, pool_vars, page_vars>>

\* 2_Translate_Files.py, lines 189-194 and 202: process_file returned; the
\* message replaces what the placeholder showed; delete_file(file_info['path'])
OnSuccess ==
  /\ pc = "returned"
  /\ files_progress' = <<[kind |-> "success", file |-> i, error |-> NoError]>>
  /\ input_dir' = input_dir \ {i}
  /\ pc' = "loop"
  /\ UNCHANGED <<llm, glossary, selected_files, i, output_dirs, output_files,
                 current_notebook, content, chunks, translated_chunks,
                 translated_content, error, attempts, outcomes, adapters, calls>>
  /\ UNCHANGED <<chunk_vars, nb_vars, path_vars, pool_vars, page_vars>>

\* 2_Translate_Files.py, lines 196-202: process_file raised; the message replaces
\* what the placeholder showed and the loop goes on
OnError ==
  /\ pc = "raised"
  /\ files_progress' = <<[kind |-> "error", file |-> i, error |-> error]>>
  /\ pc' = "loop"
  /\ UNCHANGED <<llm, glossary, selected_files, i, input_dir, output_dirs, output_files,
                 current_notebook, content, chunks, translated_chunks,
                 translated_content, error, attempts, outcomes, adapters, calls>>
  /\ UNCHANGED <<chunk_vars, nb_vars, path_vars, pool_vars, page_vars>>

\* 2_Translate_Files.py, lines 204-205: st.success(...), then st.rerun() draws
\* the page anew, without the placeholder of this run
LoopEnd ==
  /\ pc = "loop"
  /\ i = N
  /\ files_progress' = <<>>
  /\ pc' = "done"
  /\ UNCHANGED <<llm, glossary, selected_files, i, input_dir, output_dirs, output_files,
                 current_notebook, content, chunks, translated_chunks,
                 translated_content, error, attempts, outcomes, adapters, calls>>
  /\ UNCHANGED <<chunk_vars, nb_vars, path_vars, pool_vars, page_vars>>

\* a caller of process_file that goes on to its next call, whatever the outcome
CallEnded ==
  /\ pc \in {"returned", "raised"}
  /\ pc' = "loop"
  /\ UNCHANGED <<llm, glossary, selected_files, i, input_dir, output_dirs, output_files,
                 current_notebook, content, chunks, translated_chunks,
                 translated_content, error, files_progress, attempts, outcomes,
                 adapters, calls>>
  /\ UNCHANGED <<chunk_vars, nb_vars, path_vars, pool_vars, page_vars>>

\* the Translate page working through the selected files
Init ==
  SvcInit(Batches(ListedFiles, MaxBatch)) /\ ChunkIdle /\ NbIdle /\ PathIdle /\ PoolIdle
    /\ PagesIdle

Next ==
  \/ LoopNext
  \/ ProcessFile
  \/ OnSuccess
  \/ OnError
  \/ LoopEnd

Spec == Init /\ [][Next]_vars

\* process_file called on any files, one call after the other, on one service
CallInit ==
  SvcInit(Batches(AllFiles, MaxCalls)) /\ ChunkIdle /\ NbIdle /\ PathIdle /\ PoolIdle
    /\ PagesIdle

CallNext ==
  \/ LoopNext
  \/ ProcessFile
  \/ CallEnded

SpecCall == CallInit /\ [][CallNext]_vars

\* a second notebook, with other cells than PlainNotebook
OtherNotebook ==
  [metadata |-> "kernelspec",
   cells |-> << [cell_type |-> "code", source |-> <<"d">>, metadata |-> "outputs"],
                [cell_type |-> "markdown", source |-> <<"b">>, metadata |-> "{}"] >>]

\* files for calls that mix notebooks with other formats and with failures
NotebookCallFiles ==
  {File(".ipynb", TRUE, <<>>, <<>>, PlainNotebook),
   File(".ipynb", TRUE, <<>>, <<>>, OtherNotebook),
   File(".ipynb", FALSE, <<>>, <<>>, NoNotebook),
   File(".IPYNB", TRUE, <<>>, <<>>, OtherNotebook),
   File(".md", TRUE, FrontMatter, ShortBody, NoNotebook),
   File(".docx", TRUE, <<>>, ShortBody, NoNotebook)}

\* process_file called on notebooks and other files, one call after the other,
\* on one service
InitNbCalls ==
  SvcInit(Batches(NotebookCallFiles, MaxCalls)) /\ ChunkIdle /\ NbIdle /\ PathIdle
    /\ PoolIdle /\ PagesIdle

SpecNbCalls == InitNbCalls /\ [][CallNext]_vars

(***************************************************************************)
(* Claims about split_text and translate_content (SpecChunk).              *)
(***************************************************************************)
\* split_text has returned c_chunks for c_text and c_max
ChunksKnown == c_pc \in {"split_done", "translating", "returned"}

\* position p of c_text lies inside an occurrence of some chunk in c_text
InSomeChunk(p) ==
  \E k \in 1..Len(c_chunks) :
    \E o \in 1..Len(c_text) :
      /\ o <= p
      /\ p <= o + Len(c_chunks[k]) - 1
      /\ o + Len(c_chunks[k]) - 1 <= Len(c_text)
      /\ SubSeq(c_text, o, o + Len(c_chunks[k]) - 1) = c_chunks[k]

\* C8 (as claimed): with an identity backend translate_content returns a string
\* equal to the prose it was given; nothing is duplicated or lost at chunk
\* boundaries.
C8_ChunkCoverage ==
  (c_pc = "returned" /\ c_llm = "identity") => c_result = c_text

\* C9: every chunk returned by split_text(text, max_size) has size at most
\* max_size (the splitter can always split further, down to single characters,
\* so no oversized paragraph is ever kept whole).
C9_ChunkSizeBound ==
  ChunksKnown => \A k \in 1..Len(c_chunks) : Len(c_chunks[k]) <= c_max

\* C9 witness: a text longer than the bound was split into several chunks, one
\* of them exactly as long as the bound.
C9_Witness ==
  /\ c_pc = "split_done"
  /\ Len(c_text) > c_max
  /\ Len(c_chunks) >= 2
  /\ \E k \in 1..Len(c_chunks) : Len(c_chunks[k]) = c_max

NbWritten == n_pc = "done" /\ n_result.status = "written"
NbOut == n_result.notebook[1]
NbMarkdownCount == Len(MarkdownContents(n_notebook.cells))
NbSegments == StrSplit(n_translated, CellSeparator)

\* C1 (as claimed): reading a notebook and writing the extracted prose back
\* unchanged gives a notebook with the same number of cells in the same order,
\* every non-markdown cell identical to the input cell and every markdown cell's
\* source equal to the input cell's source.
C1_NotebookRoundTrip ==
  (n_pc = "done" /\ n_identity) =>
    /\ n_result.status = "written"
    /\ Len(NbOut.cells) = Len(n_notebook.cells)
    /\ \A k \in 1..Len(n_notebook.cells) :
         /\ NbOut.cells[k].cell_type = n_notebook.cells[k].cell_type
         /\ NbOut.cells[k].source = n_notebook.cells[k].source
         /\ ~IsMarkdown(n_notebook.cells[k]) => NbOut.cells[k] = n_notebook.cells[k]

\* C6 (as claimed): when the number of segments of the translated prose differs
\* from the number of markdown cells, reconstruction fails and writes nothing.
\* Stated for notebooks that have a markdown cell (the empty prose of a notebook
\* without one splits into one empty segment, which is no translation mismatch).
C6_MismatchIsError ==
  (n_pc = "done" /\ n_current # <<>> /\ NbMarkdownCount >= 1
     /\ Len(NbSegments) # NbMarkdownCount) =>
    /\ n_result.status # "written"
    /\ n_result.notebook = <<>>

\* C7 (as claimed): splitting the prose returned by _read_notebook on the
\* separator yields exactly one segment per markdown cell, in cell order, each
\* equal to that cell's source.
C7_SeparatorNeverMissegments ==
  n_pc = "read" => StrSplit(n_prose, CellSeparator) = MarkdownContents(n_notebook.cells)

(***************************************************************************)
(* Claims about the Translate page's batch (Spec).                         *)
(***************************************************************************)
Ended(k) == k <= Len(outcomes)
Returned(k) == Ended(k) /\ outcomes[k].status = "returned"
Raised(k) == Ended(k) /\ outcomes[k].status = "raised"

\* C2 (as claimed): the document written for a Markdown/MDX file carries the
\* front matter of the input; with an identity backend the body is unchanged too.
C2_FrontMatterPreserved ==
  \A k \in 1..N :
    (output_files[k] # <<>> /\ Lower(selected_files[k].suffix) \in {".md", ".mdx"}) =>
      /\ output_files[k][1].metadata = selected_files[k].metadata
      /\ llm = "identity" => output_files[k][1].body = selected_files[k].body

\* C3: process_file is attempted on every file of the batch exactly once, in list
\* order, whatever the outcomes of the earlier files: the attempts so far are the
\* files 1..i, each earlier one has ended (returned or raised), and when the
\* batch ends every file has been attempted.
C3_BatchIsolation ==
  /\ attempts = [k \in 1..i |-> k]
  /\ \A k \in 1..(i - 1) : Ended(k)
  /\ pc = "done" => (i = N /\ \A k \in 1..N : Ended(k))

\* C3 witness: a batch has ended in which process_file raised on one file and
\* returned on the file after it.
C3_Witness ==
  /\ pc = "done"
  /\ \E k \in 1..(N - 1) : Raised(k) /\ Returned(k + 1)

\* C4: an input file is deleted only after process_file returned for that file
\* and its output was written; a file on which process_file raised still exists.
C4_InputKeptOnFailure ==
  \A k \in 1..N :
    /\ k \notin input_dir => (Returned(k) /\ output_files[k] # <<>>)
    /\ Raised(k) => k \in input_dir

\* C4 witness: the batch has ended; a file whose processing raised is still in
\* the input directory and a file that was translated has been deleted.
C4_Witness ==
  /\ pc = "done"
  /\ \E k \in 1..N : Raised(k) /\ k \in input_dir
  /\ \E k \in 1..N : Returned(k) /\ k \notin input_dir

(***************************************************************************)
(* Claims about process_file on any file (SpecCall).                       *)
(***************************************************************************)
NoAdapterRun(k) == \A a \in 1..Len(adapters) : adapters[a].file # k
NoBackendCall(k) == \A c \in 1..Len(calls) : calls[c].file # k

\* C5 (as claimed): process_file on a file whose extension is none of .md, .mdx,
\* .rst, .rstx, .html, .py, .ipynb fails with an error that names the extension;
\* no format adapter is run and the backend is not called.
C5_UnsupportedRejected ==
  \A k \in 1..Len(attempts) :
    selected_files[k].suffix \notin SupportedSuffixes =>
      /\ NoAdapterRun(k)
      /\ NoBackendCall(k)
      /\ Ended(k) => /\ outcomes[k].status = "raised"
                     /\ outcomes[k].kind = "ValueError"
                     /\ outcomes[k].message = selected_files[k].suffix

\* C5 (amended): process_file on a file whose extension, lower-cased, is none of
\* the seven fails with a ValueError that names the lower-cased extension; no
\* format adapter is run and the backend is not called.
C5_UnsupportedRejectedAnyCase ==
  \A k \in 1..Len(attempts) :
    Lower(selected_files[k].suffix) \notin SupportedSuffixes =>
      /\ NoAdapterRun(k)
      /\ NoBackendCall(k)
      /\ Ended(k) => /\ outcomes[k].status = "raised"
                     /\ outcomes[k].kind = "ValueError"
                     /\ outcomes[k].message = Lower(selected_files[k].suffix)

\* C5 witness: the second call, on a .DOCX file, has raised after a first call
\* that reached the backend.
C5_Witness ==
  /\ Len(selected_files) = 2
  /\ selected_files[2].suffix = ".DOCX"
  /\ Raised(2)
  /\ ~NoBackendCall(1)

(***************************************************************************)
(* Claims about translate_content inside process_file.                     *)
(***************************************************************************)
IsCallOfCurrent(c) == c.file = i
\* the invocations of the chain made for the current file, in order
CurrentCalls == SelectSeq(calls, IsCallOfCurrent)
InTranslateContent == pc \in {"translate", "write", "returned", "raised"}

\* C11: translate_content invokes the backend once per chunk, in chunk order,
\* never twice on a chunk and never on several chunks at once: the invocations
\* made for a file are always the first chunks of the file, the k-th translated
\* chunk is the answer to the k-th invocation, and when translate_content has
\* returned there were exactly n invocations and the text returned is the n
\* answers joined in that order.
C11_OneCallPerChunkInOrder ==
  InTranslateContent =>
    /\ Len(CurrentCalls) <= Len(chunks)
    /\ \A k \in 1..Len(CurrentCalls) : CurrentCalls[k].chunk = chunks[k]
    /\ \A k \in 1..Len(translated_chunks) :
         /\ CurrentCalls[k].response.ok
         /\ translated_chunks[k] = CurrentCalls[k].response.text
    /\ pc \in {"write", "returned"} =>
         /\ Len(CurrentCalls) = Len(chunks)
         /\ translated_content =
              StrJoin([k \in 1..Len(chunks) |-> CurrentCalls[k].response.text],
                      <<"NL">>)

\* C11 witness: process_file has returned for a file of two chunks that the
\* backend answered differently.
C11_Witness ==
  /\ pc = "returned"
  /\ Len(chunks) = 2
  /\ Len(CurrentCalls) = 2
  /\ translated_chunks[1] # translated_chunks[2]
  /\ translated_chunks[1] # chunks[1]

\* the stage of the run of process_file on file k, in the words of the
\* per-file state machine; done counts the chunks translated so far
StageOf(name, done) == [name |-> name, done |-> done]
Stage(k) ==
  IF k > i THEN StageOf("Pending", 0)
  ELSE IF k <= Len(outcomes)
  THEN IF outcomes[k].status = "returned" THEN StageOf("Written", 0)
       ELSE StageOf("Failed", 0)
  ELSE IF pc \in {"resolve", "read"} THEN StageOf("Pending", 0)
  ELSE IF pc = "split" THEN StageOf("Extracted", 0)
  ELSE IF pc = "translate"
  THEN IF translated_chunks = <<>> THEN StageOf("Chunked", 0)
       ELSE StageOf("Translating", Len(translated_chunks))
  ELSE StageOf("Reassembling", 0)

TerminalStages == {"Written", "Failed"}

\* t is the stage after s in a run on a file of n chunks
NextStage(s, t, n) ==
  \/ s.name = "Pending" /\ t = StageOf("Extracted", 0)
  \/ s.name = "Extracted" /\ t = StageOf("Chunked", 0)
  \/ s.name = "Chunked" /\ n > 0 /\ t = StageOf("Translating", 1)
  \/ s.name = "Chunked" /\ n = 0 /\ t = StageOf("Reassembling", 0)
  \/ s.name = "Translating" /\ s.done < n /\ t = StageOf("Translating", s.done + 1)
  \/ s.name = "Translating" /\ s.done = n /\ t = StageOf("Reassembling", 0)
  \/ s.name = "Reassembling" /\ t = StageOf("Written", 0)

\* C12: every step of a run of process_file leaves the stage of each file as
\* it is, moves it to the next stage of Pending, Extracted, Chunked,
\* Translating(1..n), Reassembling, Written, or moves it from a stage that is
\* not terminal to Failed; an output file is written only by the step from
\* Reassembling to Written, after an invocation for each of the n chunks; and
\* when the caller has the control back the file is Written or Failed.
C12_PerFileStateMachine ==
  [][\A k \in 1..N :
       /\ \/ Stage(k)' = Stage(k)
          \/ NextStage(Stage(k), Stage(k)', Len(chunks'))
          \/ Stage(k).name \notin TerminalStages /\ Stage(k)' = StageOf("Failed", 0)
       /\ output_files'[k] # output_files[k] =>
            /\ Stage(k).name = "Reassembling"
            /\ Stage(k)'.name = "Written"
            /\ Len(translated_chunks) = Len(chunks)
            /\ Len(CurrentCalls) = Len(chunks)
       /\ (pc' \in {"loop", "done"} /\ k <= i') => Stage(k)'.name \in TerminalStages
    ]_vars

\* C12 witness: the second run on a service has written its file after
\* translating two chunks, the first run having failed.
C12_Witness ==
  /\ i = 2
  /\ Stage(1).name = "Failed"
  /\ Stage(2).name = "Written"
  /\ Len(chunks) = 2
  /\ output_files[2] # <<>>

\* C13: when the invocation of the chain fails on a chunk of a file, the run of
\* process_file on that file raises at once with the backend's error: the failed
\* invocation is the last one made for the file (no retry, no later chunk) and
\* no output file exists for the file.
C13_BackendFailureFailsFile ==
  \A c \in 1..Len(calls) :
    ~calls[c].response.ok =>
      /\ \A d \in (c + 1)..Len(calls) : calls[d].file # calls[c].file
      /\ Raised(calls[c].file)
      /\ outcomes[calls[c].file].kind = "BackendError"
      /\ output_files[calls[c].file] = <<>>

\* C13 witness: the batch has ended; the backend failed on the second chunk of
\* the first file, after answering the first chunk, and the second file was
\* translated.
C13_Witness ==
  /\ pc = "done"
  /\ N = 2
  /\ \E c \in 2..Len(calls) :
       /\ calls[c].file = 1 /\ ~calls[c].response.ok
       /\ calls[c - 1].file = 1 /\ calls[c - 1].response.ok
  /\ Returned(2)

(***************************************************************************)
(* Claims about the batch of the Translate page (Spec), continued.         *)
(***************************************************************************)
\* the loop over the selected files has ended
BatchFinished == i = N /\ pc \in {"loop", "done"}

\* C14 (as claimed): when the batch has finished, for every file on which
\* process_file raised the page still shows a record that names the file and
\* carries its error.
C14_NoFailureLost ==
  BatchFinished =>
    \A k \in 1..N :
      Raised(k) =>
        \E m \in 1..Len(files_progress) :
          /\ files_progress[m].kind = "error"
          /\ files_progress[m].file = k
          /\ files_progress[m].error.kind = outcomes[k].kind

(***************************************************************************)
(* The output path of process_file (lines 60-75, 82-83).  A path is the    *)
(* sequence of its components; an absolute path starts with "/".           *)
(***************************************************************************)
\* Path("input_files"), line 64; st.session_state.base_input_dir of the pages
InputRoot == <<"input_files">>

FileNames == {"a.md", "n.ipynb", "B.MD"}
\* Path.suffix
Suffix(name) ==
  CASE name = "a.md" -> ".md"
    [] name = "n.ipynb" -> ".ipynb"
    [] name = "B.MD" -> ".MD"
    [] OTHER -> ""

\* get_downloaded_files: the files under a repository directory of the input
\* directory, at any depth
ListedPaths ==
  {InputRoot \o <<"repo", name>> : name \in FileNames}
    \cup {InputRoot \o <<"repo", "docs", name>> : name \in FileNames}
\* paths outside the input directory
OtherPaths == {<<"other", "a.md">>, <<"/", "tmp", "a.md">>, <<"a.md">>}

IsAbsolute(path) == path # <<>> /\ path[1] = "/"
IsPrefix(base, path) ==
  Len(base) <= Len(path) /\ SubSeq(path, 1, Len(base)) = base
\* Path.parent
Parent(path) == SubSeq(path, 1, Len(path) - 1)
\* Path.name
Name(path) == path[Len(path)]

\* Path.relative_to: ValueError when base is not a prefix of the path
relative_to(path, base) ==
  IF IsPrefix(base, path) /\ (IsAbsolute(base) <=> IsAbsolute(path))
  THEN [ok |-> TRUE, path |-> SubSeq(path, Len(base) + 1, Len(path))]
  ELSE [ok |-> FALSE, path |-> <<>>]

\* the relative path being the file name alone
relative_path_name_only(file_path) == <<Name(file_path)>>

\* process_file, lines 63-71
relative_path(file_path) ==
  IF relative_to(file_path, InputRoot).ok
  THEN relative_to(file_path, InputRoot).path
  ELSE IF relative_to(file_path, Parent(InputRoot)).ok
  THEN relative_to(file_path, Parent(InputRoot)).path
  ELSE <<Name(file_path)>>

\* os.makedirs(dir, exist_ok=True): dir and the directories above it
MakeDirs(dir) == {SubSeq(dir, 1, n) : n \in 1..Len(dir)}

PathInit ==
  /\ p_file_path \in ListedPaths \cup OtherPaths
  /\ p_base_output_dir \in {<<"output_files">>, <<"out", "translated">>}
  /\ p_folder \in {"repo", "batch"}
  /\ p_output_path = <<>>
  /\ p_dirs = {}
  /\ p_written = {}
  /\ p_returned = <<>>
  /\ p_pc = "start"

\* process_file, lines 60-75
PathResolve ==
  /\ p_pc = "start"
  /\ p_output_path' = p_base_output_dir \o <<p_folder>> \o relative_path(p_file_path)
  /\ p_dirs' = p_dirs \cup MakeDirs(Parent(p_output_path'))
  /\ p_pc' = "resolved"
  /\ UNCHANGED <<p_file_path, p_base_output_dir, p_folder, p_written, p_returned>>
  /\ UNCHANGED <<chunk_vars, nb_vars, svc_vars, pool_vars, page_vars>>

\* process_file, lines 78-83: read and translated, written, returned
PathWriteReturn ==
  /\ p_pc = "resolved"
  /\ p_written' = p_written \cup {p_output_path}
  /\ p_returned' = <<p_output_path>>
  /\ p_pc' = "returned"
  /\ UNCHANGED <<p_file_path, p_base_output_dir, p_folder, p_output_path, p_dirs>>
  /\ UNCHANGED <<chunk_vars, nb_vars, svc_vars, pool_vars, page_vars>>

\* process_file, lines 78-82: reading, translating or writing raises
PathRaise ==
  /\ p_pc = "resolved"
  /\ p_pc' = "raised"
  /\ UNCHANGED <<p_file_path, p_base_output_dir, p_folder, p_output_path, p_dirs,
                 p_written, p_returned>>
  /\ UNCHANGED <<chunk_vars, nb_vars, svc_vars, pool_vars, page_vars>>

PathNext ==
  \/ PathResolve
  \/ PathWriteReturn
  \/ PathRaise

InitPath == PathInit /\ ChunkIdle /\ NbIdle /\ SvcIdle /\ PoolIdle /\ PagesIdle

SpecPath == InitPath /\ [][PathNext]_vars

\* the path <output_root>/<batch_label>/<rel> for the input <input_root>/<rel>
MirroredPath ==
  p_base_output_dir \o <<p_folder>>
    \o SubSeq(p_file_path, Len(InputRoot) + 1, Len(p_file_path))

\* C15: when process_file has returned for a file <input_root>/<rel>, the one
\* path written and the path returned are <output_root>/<batch_label>/<rel>; its
\* extension is the input's and all the directories above it exist.
C15_OutputPathMirrored ==
  (p_pc = "returned" /\ IsPrefix(InputRoot, p_file_path)) =>
    /\ p_written = {MirroredPath}
    /\ p_returned = <<MirroredPath>>
    /\ Suffix(Name(MirroredPath)) = Suffix(Name(p_file_path))
    /\ \A n \in 1..(Len(MirroredPath) - 1) : SubSeq(MirroredPath, 1, n) \in p_dirs

\* C15 witness: process_file has returned for a file in a subdirectory of a
\* repository directory, with a two-level output root.
C15_Witness ==
  /\ p_pc = "returned"
  /\ p_file_path = InputRoot \o <<"repo", "docs", "B.MD">>
  /\ p_base_output_dir = <<"out", "translated">>
  /\ p_written # {}

(***************************************************************************)
(* Claims about process_file on any file (SpecCall), continued.            *)
(***************************************************************************)
\* the format _write_file is to write for what _read_file read
WriteFormatFor(read_format) ==
  IF read_format \in {"markdown", "notebook"} THEN read_format ELSE "text"

\* C16 (as claimed): for every file _read_file accepts, in any letter case of
\* its extension, _write_file takes the branch of the format _read_file read:
\* markdown for markdown, notebook for notebook, plain text for the others;
\* the document written has that format.
C16_FormatPreserved ==
  \A a, b \in 1..Len(adapters) :
    (/\ adapters[a].file = adapters[b].file
     /\ adapters[a].op = "read"
     /\ adapters[b].op = "write") =>
      /\ adapters[b].format = WriteFormatFor(adapters[a].format)
      /\ output_files[adapters[b].file] # <<>> =>
           output_files[adapters[b].file][1].format = WriteFormatFor(adapters[a].format)

\* the symbols of the markdown-cell sources of a notebook, and of the separator
ProseSymbols(notebook) ==
  {CellSeparator[q] : q \in 1..Len(CellSeparator)}
    \cup UNION {{notebook.cells[j].source[q] : q \in 1..Len(notebook.cells[j].source)} :
                 j \in {j \in 1..Len(notebook.cells) :
                          notebook.cells[j].cell_type = "markdown"}}

\* C17: every chunk sent to the backend for a notebook file is made of text of
\* its markdown cells and of the separator only; the source of a code or raw
\* cell is in no chunk.
C17_OnlyMarkdownSent ==
  \A c \in 1..Len(calls) :
    LET file == selected_files[calls[c].file]
        chunk == calls[c].chunk
    IN Lower(file.suffix) = ".ipynb" =>
         /\ \A p \in 1..Len(chunk) : chunk[p] \in ProseSymbols(file.notebook)
         /\ \A j \in 1..Len(file.notebook.cells) :
              file.notebook.cells[j].cell_type # "markdown" =>
                Find(chunk, file.notebook.cells[j].source, 1) = 0

\* C17 witness: the backend has been invoked on a chunk of a notebook that has
\* a code cell between two markdown cells; the chunk holds the separator.
C17_Witness ==
  \E c \in 1..Len(calls) :
    /\ Lower(selected_files[calls[c].file].suffix) = ".ipynb"
    /\ \E j \in 1..Len(selected_files[calls[c].file].notebook.cells) :
         selected_files[calls[c].file].notebook.cells[j].cell_type = "code"
    /\ Find(calls[c].chunk, <<"TOK">>, 1) # 0

(***************************************************************************)
(* Claims about the notebook adapter (SpecNb), continued.                  *)
(***************************************************************************)
\* C18 (as claimed): in the notebook written, with one segment per markdown
\* cell, every markdown cell has the fields other than its source (here its
\* metadata) of the input cell, and the notebook's metadata is the input's.
C18_OnlyMarkdownSourceChanged ==
  (NbWritten /\ Len(NbSegments) = NbMarkdownCount) =>
    /\ NbOut.metadata = n_notebook.metadata
    /\ Len(NbOut.cells) = Len(n_notebook.cells)
    /\ \A k \in 1..Len(n_notebook.cells) :
         IsMarkdown(n_notebook.cells[k]) =>
           NbOut.cells[k].metadata = n_notebook.cells[k].metadata

(***************************************************************************)
(* Two calls of process_file on notebook files, interleaved on the one     *)
(* TranslationService the page creates (2_Translate_Files.py, line 170):   *)
(* the worker pool over distinct files.  Each worker has its own locals;   *)
(* self._current_notebook belongs to the service.                          *)
(***************************************************************************)
Workers == {1, 2}

PoolCells ==
  {[cell_type |-> "markdown", source |-> <<"a">>, metadata |-> "{}"],
   [cell_type |-> "markdown", source |-> <<"b">>, metadata |-> "{}"],
   [cell_type |-> "code", source |-> <<"c">>, metadata |-> "outputs"]}
\* most cells of a notebook given to a worker
MaxPoolCells == 2
PoolNotebooks ==
  [metadata : {"kernelspec"}, cells : SeqsUpTo(PoolCells, MaxPoolCells) \ {<<>>}]

PoolInit ==
  /\ w_files \in {f \in [Workers -> PoolNotebooks] : f[1] # f[2]}
  /\ w_pc = [w \in Workers |-> "start"]
  /\ w_content = [w \in Workers |-> <<>>]
  /\ w_notebook = <<>>
  /\ w_output = [w \in Workers |-> <<>>]

\* process_file, line 78, for a notebook: content = self._read_notebook(file_path)
PoolRead(w) ==
  /\ w_pc[w] = "start"
  /\ w_notebook' = read_notebook(w_files[w]).current_notebook
  /\ w_content' = [w_content EXCEPT ![w] = read_notebook(w_files[w]).prose]
  /\ w_pc' = [w_pc EXCEPT ![w] = "read"]
  /\ UNCHANGED <<w_files, w_output>>
  /\ UNCHANGED <<chunk_vars, nb_vars, svc_vars, path_vars, page_vars>>

\* process_file, line 79, with a backend that returns each chunk unchanged
PoolTranslate(w) ==
  /\ w_pc[w] = "read"
  /\ w_content' = [w_content EXCEPT
                     ![w] = JoinChunks(split_text(w_content[w], max_tokens).chunks)]
  /\ w_pc' = [w_pc EXCEPT ![w] = "translated"]
  /\ UNCHANGED <<w_files, w_notebook, w_output>>
  /\ UNCHANGED <<chunk_vars, nb_vars, svc_vars, path_vars, page_vars>>

\* process_file, line 82, for a notebook: self._write_notebook(output_path, ...)
PoolWrite(w) ==
  /\ w_pc[w] = "translated"
  /\ w_output' = [w_output EXCEPT
                    ![w] = write_notebook(w_notebook, w_content[w]).notebook]
  /\ w_pc' = [w_pc EXCEPT ![w] = "done"]
  /\ UNCHANGED <<w_files, w_content, w_notebook>>
  /\ UNCHANGED <<chunk_vars, nb_vars, svc_vars, path_vars, page_vars>>

PoolNext ==
  \/ \E w \in Workers : PoolRead(w)
  \/ \E w \in Workers : PoolTranslate(w)
  \/ \E w \in Workers : PoolWrite(w)

InitPool == PoolInit /\ ChunkIdle /\ NbIdle /\ SvcIdle /\ PathIdle /\ PagesIdle

SpecPool == InitPool /\ [][PoolNext]_vars

CellTypes(notebook) == [k \in 1..Len(notebook.cells) |-> notebook.cells[k].cell_type]

\* C19 (as claimed): when two calls of process_file on distinct notebooks are
\* interleaved on one service, the notebook each call writes is built from the
\* cell list of its own input: it has the input's cells, type by type, its
\* non-markdown cells, and (the backend returning the text unchanged) its
\* markdown sources.
C19_NoSharedState ==
  \A w \in Workers :
    w_pc[w] = "done" =>
      /\ w_output[w] # <<>>
      /\ CellTypes(w_output[w][1]) = CellTypes(w_files[w])
      /\ \A k \in 1..Len(w_files[w].cells) :
           w_output[w][1].cells[k].source = w_files[w].cells[k].source

(***************************************************************************)
(* Claims about the glossary (Spec).                                       *)
(***************************************************************************)
\* C20: no step of a batch changes the glossary the service was created with,
\* and the prompt of every invocation of the chain, for every chunk of every
\* file, embeds that glossary.
C20_GlossaryFixed ==
  /\ [][glossary' = glossary]_vars
  /\ [](\A c \in 1..Len(calls) : calls[c].glossary = glossary)

\* C20 witness: the batch has ended with invocations for two files, one of
\* them of two chunks, on a service created with a glossary of terms.
C20_Witness ==
  /\ pc = "done"
  /\ glossary # <<>>
  /\ \E c, d \in 1..Len(calls) : calls[c].file = 1 /\ calls[d].file = 2
  /\ \E c \in 1..(Len(calls) - 1) : calls[c].file = calls[c + 1].file

(***************************************************************************)
(* LLMFactory (llm_factory.py).  A backend is the class built, the model   *)
(* it is configured with and the key.                                      *)
(***************************************************************************)
Providers == {"gemini", "cohere", "groq", "together"}

\* get_available_models, lines 45-53
get_available_models(provider) ==
  CASE provider = "gemini" -> {"gemini-1-5-pro"}
    [] provider = "cohere" -> {"command-r-plus-08-2024", "command-r-08-2024", "command-r"}
    [] provider = "groq" -> {"llama-3.3-70b-versatile", "llama-3.2-70b-versatile"}
    [] provider = "together" -> {"mistralai/Mixtral-8x7B-Instruct-v0.1",
                                 "meta-llama/Llama-2-70b-chat-hf"}
    [] OTHER -> {}

\* model_name or "<default>"
OrDefault(model_name, default) ==
  IF model_name \in {"None", ""} THEN default ELSE model_name

LLM(class, model, api_key) ==
  [status |-> "ok", class |-> class, model |-> model, api_key |-> api_key]

\* create_llm, lines 11-40
create_llm(provider, api_key, model_name) ==
  CASE provider = "gemini" ->
         LLM("ChatGoogleGenerativeAI", "gemini-1.5-pro", api_key)
    [] provider = "cohere" ->
         LLM("ChatCohere", OrDefault(model_name, "command-r-plus-08-2024"), api_key)
    [] provider = "groq" ->
         LLM("ChatGroq", OrDefault(model_name, "llama-3.3-70b-versatile"), api_key)
    [] provider = "together" ->
         LLM("ChatTogether",
             OrDefault(model_name, "mistralai/Mixtral-8x7B-Instruct-v0.1"), api_key)
    [] OTHER ->
         [status |-> "ValueError", class |-> "", model |-> "", api_key |-> ""]

\* the model names a caller may pass: the listed ones, another one, or none
ModelNames ==
  UNION {get_available_models(p) : p \in Providers} \cup {"other-model", "None"}

FactoryInit ==
  /\ f_provider \in Providers \cup {"openai"}
  /\ f_api_key \in {"", "key"}
  /\ f_model_name \in ModelNames
  /\ f_llm = NoLLM
  /\ f_pc = "start"

\* LLMFactory.create_llm(provider, api_key, model_name=model_name)
FactoryCreate ==
  /\ f_pc = "start"
  /\ f_llm' = create_llm(f_provider, f_api_key, f_model_name)
  /\ f_pc' = "done"
  /\ UNCHANGED <<f_provider, f_api_key, f_model_name>>
  /\ UNCHANGED core_vars
  /\ PagesUnchangedExcept("fac")

FactoryNext ==
  \/ FactoryCreate

CoreIdle == ChunkIdle /\ NbIdle /\ SvcIdle /\ PathIdle /\ PoolIdle

InitFactory == FactoryInit /\ CoreIdle /\ PagesIdleExcept("fac")

SpecFactory == InitFactory /\ [][FactoryNext]_vars

\* the model create_llm names for a provider when none is given
DefaultModel(provider) ==
  CASE provider = "gemini" -> "gemini-1.5-pro"
    [] provider = "cohere" -> "command-r-plus-08-2024"
    [] provider = "groq" -> "llama-3.3-70b-versatile"
    [] provider = "together" -> "mistralai/Mixtral-8x7B-Instruct-v0.1"
    [] OTHER -> ""

\* C21 (as claimed): for each of the four providers create_llm returns a
\* backend configured with the model name given, or with the provider's default
\* when none is given, so a model listed by get_available_models is the model
\* used when selected; an unknown provider raises ValueError.
C21_BackendSelection ==
  f_pc = "done" =>
    IF f_provider \in Providers
    THEN /\ f_llm.status = "ok"
         /\ f_model_name # "None" => f_llm.model = f_model_name
         /\ f_model_name = "None" => f_llm.model = DefaultModel(f_provider)
    ELSE f_llm.status = "ValueError"

(***************************************************************************)
(* GitHubService.parse_github_url (github_service.py, lines 12-47).  A URL *)
(* is text: a sequence of the symbols "https:", "/", "github.com", "." and *)
(* names.  A segment is the text between two slashes.                      *)
(***************************************************************************)
\* most segments of a URL
MaxSegments == 5

Host == <<"https:", "/", "/", "github.com">>
\* segments: plain names, tree, blob, and a name that ends with github.com
\* (a repository such as a.github.com)
Segments == {<<"a">>, <<"b">>, <<"tree">>, <<"blob">>, <<"a", ".", "github.com">>}

\* the text of the URL with the given host prefix, segments and trailing slash
UrlText(prefix, segments, trailing) ==
  (IF prefix THEN Host ELSE <<>>)
    \o (IF prefix /\ segments # <<>> THEN <<"/">> ELSE <<>>)
    \o StrJoin(segments, <<"/">>)
    \o (IF trailing THEN <<"/">> ELSE <<>>)

IsSlash(c) == c = "/"
RECURSIVE LStripSlash(_)
LStripSlash(s) ==
  IF s # <<>> /\ IsSlash(s[1]) THEN LStripSlash(Tail(s)) ELSE s
RECURSIVE RStripSlash(_)
RStripSlash(s) ==
  IF s # <<>> /\ IsSlash(s[Len(s)]) THEN RStripSlash(SubSeq(s, 1, Len(s) - 1)) ELSE s
\* str.strip('/')
StripSlash(s) == LStripSlash(RStripSlash(s))

\* 'github.com' in url
ContainsHost(url) == \E p \in 1..Len(url) : url[p] = "github.com"

Parsed(owner, repo, branch, folder_path) ==
  [status |-> "ok", owner |-> owner, repo |-> repo, branch |-> branch,
   folder_path |-> folder_path]
ParseValueError ==
  [status |-> "ValueError", owner |-> <<>>, repo |-> <<>>, branch |-> <<>>,
   folder_path |-> <<>>]

\* parse_github_url, lines 18-47: every exception leaves as ValueError
parse_github_url(url) ==
  LET rest == IF ContainsHost(url)
              THEN LET pieces == StrSplit(url, <<"github.com", "/">>)
                   IN pieces[Len(pieces)]
              ELSE url
      parts == StrSplit(StripSlash(rest), <<"/">>)
  IN IF Len(parts) < 2 THEN ParseValueError
     ELSE IF Len(parts) > 2
     THEN IF parts[3] \in {<<"tree">>, <<"blob">>}
          THEN IF Len(parts) < 4 THEN ParseValueError
               ELSE Parsed(parts[1], parts[2], parts[4],
                           IF Len(parts) > 4
                           THEN StrJoin(SubSeq(parts, 5, Len(parts)), <<"/">>)
                           ELSE <<>>)
          ELSE Parsed(parts[1], parts[2], <<"main">>,
                      StrJoin(SubSeq(parts, 3, Len(parts)), <<"/">>))
     ELSE Parsed(parts[1], parts[2], <<"main">>, <<>>)

UrlInit ==
  /\ u_prefix \in BOOLEAN
  /\ u_segments \in SeqsUpTo(Segments, MaxSegments)
  /\ u_trailing \in BOOLEAN
  /\ u_url = UrlText(u_prefix, u_segments, u_trailing)
  /\ u_result = NoParse
  /\ u_pc = "start"

\* GitHubService.parse_github_url(url)
ParseUrl ==
  /\ u_pc = "start"
  /\ u_result' = parse_github_url(u_url)
  /\ u_pc' = "done"
  /\ UNCHANGED <<u_prefix, u_segments, u_trailing, u_url>>
  /\ UNCHANGED core_vars
  /\ PagesUnchangedExcept("url")

UrlNext ==
  \/ ParseUrl

InitUrl == UrlInit /\ CoreIdle /\ PagesIdleExcept("url")

SpecUrl == InitUrl /\ [][UrlNext]_vars

\* C22 (as claimed): with at least two segments, the third being tree or blob
\* and a fourth one after it, the result is the first, second and fourth
\* segments and the rest joined by "/"; with at least two segments and no tree
\* or blob in third place, it is the first and second segments, "main" and the
\* rest joined; with fewer than two segments, or tree/blob and no branch, the
\* call raises ValueError.
C22_ParseGithubUrl ==
  u_pc = "done" =>
    IF Len(u_segments) < 2 THEN u_result.status = "ValueError"
    ELSE IF Len(u_segments) > 2 /\ u_segments[3] \in {<<"tree">>, <<"blob">>}
    THEN IF Len(u_segments) = 3 THEN u_result.status = "ValueError"
         ELSE u_result =
                Parsed(u_segments[1], u_segments[2], u_segments[4],
                       StrJoin(SubSeq(u_segments, 5, Len(u_segments)), <<"/">>))
    ELSE u_result =
           Parsed(u_segments[1], u_segments[2], <<"main">>,
                  StrJoin(SubSeq(u_segments, 3, Len(u_segments)), <<"/">>))

(***************************************************************************)
(* GitHubService.get_repository_files (github_service.py, lines 49-87).    *)
(* A repository tree is a set of entries, each a path and a type; the      *)
(* directory of every entry is in the tree too.                            *)
(***************************************************************************)
Entry(path, type) == [path |-> path, type |-> type]

\* the entries a repository may have, in the order listings give them
RepoUniverse ==
  << Entry(<<"a.md">>, "file"), Entry(<<"c.txt">>, "file"),
     Entry(<<"d">>, "dir"), Entry(<<"d", "b.md">>, "file"),
     Entry(<<"d", "e">>, "dir"), Entry(<<"d", "e", "f.py">>, "file"),
     Entry(<<"x.md">>, "dir"), Entry(<<"x.md", "g.ipynb">>, "file") >>
RepoEntries == {RepoUniverse[k] : k \in 1..Len(RepoUniverse)}

IsTree(entries) ==
  \A e \in entries :
    Len(e.path) > 1 => Entry(Parent(e.path), "dir") \in entries
RepoTrees == {t \in SUBSET RepoEntries : IsTree(t)}

\* the extension a path ends with
Ext(name) ==
  CASE name \in {"a.md", "b.md", "x.md"} -> ".md"
    [] name = "c.txt" -> ".txt"
    [] name = "f.py" -> ".py"
    [] name = "g.ipynb" -> ".ipynb"
    [] OTHER -> ""

\* line 64: the file types used when none are given
DefaultFileTypes == {".md", ".mdx", ".rst", ".rstx", ".py", ".html"}
FileTypesOrDefault(file_types) ==
  IF file_types = {} THEN DefaultFileTypes ELSE file_types

\* the entries of the directory at path, in listing order
Children(tree, path) ==
  SelectSeq(RepoUniverse, LAMBDA e : e \in tree /\ Parent(e.path) = path)

\* repo.get_contents(path, ref=branch): the listing of a directory, the one
\* ContentFile of a file, or GithubException (404) when nothing is at the path
get_contents(tree, path) ==
  IF path = <<>> \/ Entry(path, "dir") \in tree
  THEN [status |-> "list", entries |-> Children(tree, path)]
  ELSE IF Entry(path, "file") \in tree
  THEN [status |-> "file", entries |-> <<Entry(path, "file")>>]
  ELSE [status |-> "GithubException", entries |-> <<>>]

RepoInit ==
  /\ r_tree \in RepoTrees
  /\ r_folder_path \in {<<>>, <<"d">>, <<"d", "e">>, <<"a.md">>, <<"x.md">>}
  /\ r_file_types \in {{}, SupportedSuffixes}
  /\ r_contents = <<>>
  /\ r_files = <<>>
  /\ r_fetched = <<>>
  /\ r_error = "none"
  /\ r_pc = "start"

\* lines 51-74: the first get_contents; a request may fail with GithubException;
\* when folder_path is a file, get_contents returns one ContentFile, which is
\* true in the while test and has no pop (AttributeError)
RepoStart ==
  /\ r_pc = "start"
  /\ r_fetched' = Append(r_fetched, r_folder_path)
  /\ \E fails \in BOOLEAN :
       LET got == get_contents(r_tree, r_folder_path)
       IN IF fails \/ got.status = "GithubException"
          THEN r_error' = "GithubException" /\ r_pc' = "raised" /\ UNCHANGED r_contents
          ELSE IF got.status = "file"
          THEN r_error' = "AttributeError" /\ r_pc' = "raised" /\ UNCHANGED r_contents
          ELSE r_contents' = got.entries /\ r_pc' = "loop" /\ UNCHANGED r_error
  /\ UNCHANGED <<r_tree, r_folder_path, r_file_types, r_files>>
  /\ UNCHANGED core_vars
  /\ PagesUnchangedExcept("repo")

\* lines 73-76: a directory is popped and its listing appended to the work list
RepoVisitDir ==
  /\ r_pc = "loop"
  /\ r_contents # <<>>
  /\ Head(r_contents).type = "dir"
  /\ r_fetched' = Append(r_fetched, Head(r_contents).path)
  /\ \E fails \in BOOLEAN :
       LET got == get_contents(r_tree, Head(r_contents).path)
       IN IF fails \/ got.status # "list"
          THEN r_error' = "GithubException" /\ r_pc' = "raised" /\ UNCHANGED r_contents
          ELSE /\ r_contents' = Tail(r_contents) \o got.entries
               /\ UNCHANGED <<r_error, r_pc>>
  /\ UNCHANGED <<r_tree, r_folder_path, r_file_types, r_files>>
  /\ UNCHANGED core_vars
  /\ PagesUnchangedExcept("repo")

\* lines 73-79: an entry that is not a directory is popped, and kept when its
\* path ends with one of the file types
RepoVisitFile ==
  /\ r_pc = "loop"
  /\ r_contents # <<>>
  /\ Head(r_contents).type # "dir"
  /\ r_contents' = Tail(r_contents)
  /\ r_files' = IF Ext(Name(Head(r_contents).path)) \in FileTypesOrDefault(r_file_types)
                THEN Append(r_files, Head(r_contents))
                ELSE r_files
  /\ UNCHANGED <<r_tree, r_folder_path, r_file_types, r_fetched, r_error, r_pc>>
  /\ UNCHANGED core_vars
  /\ PagesUnchangedExcept("repo")

\* line 84: return files
RepoReturn ==
  /\ r_pc = "loop"
  /\ r_contents = <<>>
  /\ r_pc' = "returned"
  /\ UNCHANGED <<r_tree, r_folder_path, r_file_types, r_contents, r_files, r_fetched,
                 r_error>>
  /\ UNCHANGED core_vars
  /\ PagesUnchangedExcept("repo")

RepoNext ==
  \/ RepoStart
  \/ RepoVisitDir
  \/ RepoVisitFile
  \/ RepoReturn

InitRepo == RepoInit /\ CoreIdle /\ PagesIdleExcept("repo")

SpecRepo == InitRepo /\ [][RepoNext]_vars

\* the entries under folder_path that are not directories and whose path ends
\* with one of the file types
MatchingEntries ==
  {e \in r_tree :
     /\ e.type # "dir"
     /\ IsPrefix(r_folder_path, e.path)
     /\ Len(e.path) > Len(r_folder_path)
     /\ Ext(Name(e.path)) \in FileTypesOrDefault(r_file_types)}

\* C23 (as claimed): the call ends by raising only when a request raised
\* GithubException; when it returns, the list holds exactly the entries under
\* folder_path that are not directories and end with one of the file types,
\* each once; the work list only ever holds entries under folder_path and no
\* directory is listed twice.
C23_RepositoryFiles ==
  /\ r_pc = "raised" => r_error = "GithubException"
  /\ r_pc = "returned" =>
       /\ r_error = "none"
       /\ {r_files[k] : k \in 1..Len(r_files)} = MatchingEntries
       /\ \A j, k \in 1..Len(r_files) : r_files[j] = r_files[k] => j = k
  /\ \A j, k \in 1..Len(r_fetched) : r_fetched[j] = r_fetched[k] => j = k

(***************************************************************************)
(* Claims about _write_notebook (SpecNb), continued.                       *)
(***************************************************************************)
\* C24 (as claimed): whenever _write_notebook has written a notebook, for any
\* translated content, the notebook has as many cells as the original and the
\* cell at each position has the type of the original cell at that position.
C24_CellTypesKept ==
  NbWritten =>
    /\ Len(NbOut.cells) = Len(n_notebook.cells)
    /\ \A k \in 1..Len(n_notebook.cells) :
         NbOut.cells[k].cell_type = n_notebook.cells[k].cell_type

(***************************************************************************)
(* Claims about sequences of process_file calls on notebooks (SpecNbCalls).*)
(***************************************************************************)
\* the file of call k is a notebook by its suffix as given
IsNotebookCall(k) == selected_files[k].suffix = ".ipynb"

\* C25: in any sequence of process_file calls on one service, _write_notebook
\* is reached only right after _read_notebook ran for the same file in the same
\* call; the notebook attribute at the write is that file's own notebook, the
\* notebook written has the file's own cell count and its own non-markdown
\* cells, and no call raises the "No notebook structure found" ValueError (the
\* only ValueError is the one of an unsupported suffix, which carries it).
C25_OwnNotebook ==
  /\ (pc = "write" /\ IsNotebookCall(i)) =>
       current_notebook = <<current_file.notebook>>
  /\ \A b \in 1..Len(adapters) :
       (adapters[b].op = "write" /\ adapters[b].format = "notebook") =>
         /\ b > 1
         /\ adapters[b - 1] =
              [file |-> adapters[b].file, op |-> "read", format |-> "notebook"]
  /\ \A k \in 1..Len(outcomes) :
       (Raised(k) /\ outcomes[k].kind = "ValueError") => outcomes[k].message # ""
  /\ \A k \in 1..Len(selected_files) :
       (output_files[k] # <<>> /\ output_files[k][1].format = "notebook") =>
         LET out == output_files[k][1].notebook.cells
             own == selected_files[k].notebook.cells
         IN /\ Len(out) = Len(own)
            /\ \A j \in 1..Len(out) :
                 out[j].cell_type # "markdown" => \E m \in 1..Len(own) : out[j] = own[m]

\* two notebooks were processed one after the other and the second one was
\* written with its own code cell
C25_Witness ==
  /\ Len(selected_files) = 2
  /\ Returned(1) /\ Returned(2)
  /\ IsNotebookCall(1) /\ selected_files[1].notebook = PlainNotebook
  /\ IsNotebookCall(2) /\ selected_files[2].notebook = OtherNotebook
  /\ output_files[2] # <<>>
  /\ output_files[2][1].format = "notebook"
  /\ output_files[2][1].notebook.cells[1] = OtherNotebook.cells[1]

(***************************************************************************)
(* Claims about what a raising process_file leaves behind (SpecCall).      *)
(***************************************************************************)
\* C26 (as claimed): when process_file has raised for a file, nothing was
\* created for that file under the output root: no output file and no
\* directory.
C26_NothingCreatedOnRaise ==
  \A k \in 1..Len(outcomes) :
    Raised(k) => (output_files[k] = <<>> /\ k \notin output_dirs)

(***************************************************************************)
(* From the Download page to the Translate and Upload pages: which files   *)
(* each page takes.  A file is named by its suffix.                        *)
(***************************************************************************)
\* AppConfig.supported_file_types (config.py, line 9)
supported_file_types == {".md", ".mdx", ".rst", ".rstx", ".py", ".html", ".ipynb"}
\* the suffixes get_translated_files lists (3_Upload_Translations.py, line 31)
UploadListedSuffixes == {".md", ".mdx", ".rst", ".rstx", ".py", ".html"}

\* get_downloaded_files (2_Translate_Files.py, lines 48-64)
get_downloaded_files(input) == {f \in input : f \in ListedSuffixes}
\* get_translated_files (3_Upload_Translations.py, lines 21-37)
get_translated_files(output) == {f \in output : f \in UploadListedSuffixes}

FlowInit ==
  /\ d_repo \in SUBSET Suffixes
  /\ d_input = {} /\ d_listed = {} /\ d_output = {} /\ d_uploadable = {}
  /\ d_pc = "start"

\* 1_Download_Files.py, lines 98-128: get_repository_files with
\* file_types=AppConfig.supported_file_types, then download_file on each
FlowDownload ==
  /\ d_pc = "start"
  /\ d_input' = {f \in d_repo : f \in supported_file_types}
  /\ d_pc' = "downloaded"
  /\ UNCHANGED <<d_repo, d_listed, d_output, d_uploadable>>
  /\ UNCHANGED core_vars /\ PagesUnchangedExcept("flow")

\* the Translate page is drawn: files = get_downloaded_files()
FlowListDownloaded ==
  /\ d_pc = "downloaded"
  /\ d_listed' = get_downloaded_files(d_input)
  /\ d_pc' = "listed"
  /\ UNCHANGED <<d_repo, d_input, d_output, d_uploadable>>
  /\ UNCHANGED core_vars /\ PagesUnchangedExcept("flow")

\* 2_Translate_Files.py, lines 179-205: a listed file is selected, process_file
\* writes its translation, delete_file removes the input file, and st.rerun()
\* draws the page with a new listing
FlowTranslate ==
  /\ d_pc = "listed"
  /\ \E f \in d_listed :
       /\ read_file(File(f, TRUE, <<>>, ShortBody, PlainNotebook), <<>>).status = "ok"
       /\ d_output' = d_output \cup {f}
       /\ d_input' = d_input \ {f}
       /\ d_listed' = get_downloaded_files(d_input \ {f})
  /\ UNCHANGED <<d_repo, d_uploadable, d_pc>>
  /\ UNCHANGED core_vars /\ PagesUnchangedExcept("flow")

\* the Upload page is drawn: files = get_translated_files()
FlowListTranslated ==
  /\ d_pc = "listed"
  /\ d_uploadable' = get_translated_files(d_output)
  /\ UNCHANGED <<d_repo, d_input, d_listed, d_output, d_pc>>
  /\ UNCHANGED core_vars /\ PagesUnchangedExcept("flow")

FlowNext ==
  \/ FlowDownload
  \/ FlowListDownloaded
  \/ FlowTranslate
  \/ FlowListTranslated

InitFlow == FlowInit /\ CoreIdle /\ PagesIdleExcept("flow")

SpecFlow == InitFlow /\ [][FlowNext]_vars

\* C27 (as claimed): once the Translate page has listed the input directory,
\* every file the Download page stored there and that is still there is in the
\* listing; and for every file of the repository the four filters agree: it is
\* downloaded exactly if the Translate page lists it, exactly if the Upload
\* page lists it, exactly if _read_file has a branch for it.
C27_SameExtensions ==
  d_pc = "listed" =>
    /\ d_input \subseteq d_listed
    /\ \A f \in d_repo :
         /\ (f \in supported_file_types) = (f \in ListedSuffixes)
         /\ (f \in ListedSuffixes) = (f \in UploadListedSuffixes)
         /\ (f \in UploadListedSuffixes) = (f \in SupportedSuffixes)

(***************************************************************************)
(* The Upload page: upload_to_github and the upload loop of main.          *)
(* A path is the sequence of its components; the repository maps a path to *)
(* <<>> (no such file), <<"old">> (a file that was there before) or the    *)
(* local path of the file whose content it holds.                          *)
(***************************************************************************)
\* the files get_translated_files found under the output directory
LocalFiles ==
  {<<"output_files", "r", "a.md">>, <<"output_files", "r", "sub", "a.md">>,
   <<"output_files", "r", "b.md">>}
\* the folder path of the repository URL: the root or a folder
UpTargets == {<<>>, <<"docs">>}

\* upload_to_github, lines 59-69: target_path and the base name of the local path
repo_file_path(target_path, path) == target_path \o <<Name(path)>>

RepoPaths == {repo_file_path(t, p) : t \in UpTargets, p \in LocalFiles}

\* the sequences of distinct selected files
Selections ==
  {s \in SeqsUpTo(LocalFiles, Cardinality(LocalFiles)) :
     /\ s # <<>>
     /\ \A j, k \in 1..Len(s) : s[j] = s[k] => j = k}

ApiCall(op, ok) == [op |-> op, ok |-> ok]

\* upload_to_github (lines 52-104) on a repository; gc_ok, upd_ok, cr_ok: the
\* API serves get_contents, update_file, create_file without a failure of its own.
\* get_contents raises GithubException for a missing path, create_file for an
\* existing one.
upload_to_github(remote, path, target_path, gc_ok, upd_ok, cr_ok) ==
  LET rp == repo_file_path(target_path, path)
      exists == remote[rp] # <<>>
  IN IF exists /\ gc_ok
     THEN IF upd_ok
          THEN [result |-> TRUE, remote |-> [remote EXCEPT ![rp] = path],
                api |-> <<ApiCall("get_contents", TRUE), ApiCall("update_file", TRUE)>>]
          ELSE [result |-> FALSE, remote |-> remote,
                api |-> <<ApiCall("get_contents", TRUE), ApiCall("update_file", FALSE),
                          ApiCall("create_file", FALSE)>>]
     ELSE IF ~exists /\ cr_ok
          THEN [result |-> TRUE, remote |-> [remote EXCEPT ![rp] = path],
                api |-> <<ApiCall("get_contents", FALSE), ApiCall("create_file", TRUE)>>]
          ELSE [result |-> FALSE, remote |-> remote,
                api |-> <<ApiCall("get_contents", FALSE), ApiCall("create_file", FALSE)>>]

\* the API calls of file k, in the form of the history
Logged(k, api) == [j \in 1..Len(api) |-> [file |-> k, op |-> api[j].op, ok |-> api[j].ok]]

UpInit ==
  /\ up_selected \in Selections
  /\ up_target \in UpTargets
  /\ up_delete \in BOOLEAN
  /\ up_local = LocalFiles
  /\ \E present \in SUBSET {Name(p) : p \in LocalFiles} :
       up_remote = [rp \in RepoPaths |->
                      IF Name(rp) \in present THEN <<"old">> ELSE <<>>]
  /\ up_i = 0
  /\ up_returns = <<>>
  /\ up_log = <<>>
  /\ up_pc = "loop"

\* main, lines 228-243: one turn of the upload loop
UpUpload ==
  /\ up_pc = "loop"
  /\ up_i < Len(up_selected)
  /\ \E gc_ok, upd_ok, cr_ok \in BOOLEAN :
       LET k == up_i + 1
           r == upload_to_github(up_remote, up_selected[k], up_target,
                                 gc_ok, upd_ok, cr_ok)
       IN /\ up_remote' = r.remote
          /\ up_returns' = Append(up_returns, r.result)
          /\ up_log' = up_log \o Logged(k, r.api)
          /\ up_local' = IF r.result /\ up_delete
                         THEN up_local \ {up_selected[k]}
                         ELSE up_local
          /\ up_i' = k
  /\ UNCHANGED <<up_selected, up_target, up_delete, up_pc>>
  /\ UNCHANGED core_vars /\ PagesUnchangedExcept("up")

\* main, lines 245-252: the loop is over
UpFinish ==
  /\ up_pc = "loop"
  /\ up_i = Len(up_selected)
  /\ up_pc' = "done"
  /\ UNCHANGED <<up_selected, up_target, up_delete, up_local, up_remote, up_i,
                 up_returns, up_log>>
  /\ UNCHANGED core_vars /\ PagesUnchangedExcept("up")

UpNext ==
  \/ UpUpload
  \/ UpFinish

InitUp == UpInit /\ CoreIdle /\ PagesIdleExcept("up")

SpecUp == InitUp /\ [][UpNext]_vars

\* the history holds a call of op for file k with the given outcome
UpCalled(k, op, ok) ==
  \E j \in 1..Len(up_log) :
    up_log[j].file = k /\ up_log[j].op = op /\ up_log[j].ok = ok

\* C28 (as claimed): a local file is deleted only if upload_to_github returned
\* True for it; True is returned only when update_file or create_file for the
\* file completed; create_file is attempted only after get_contents raised; a
\* failed upload leaves the file in place and the loop reaches every selected
\* file.
C28_UploadThenDelete ==
  /\ \A k \in 1..Len(up_returns) :
       /\ up_selected[k] \notin up_local => up_returns[k]
       /\ up_returns[k] =>
            (UpCalled(k, "update_file", TRUE) \/ UpCalled(k, "create_file", TRUE))
       /\ (UpCalled(k, "create_file", TRUE) \/ UpCalled(k, "create_file", FALSE)) =>
            UpCalled(k, "get_contents", FALSE)
       /\ ~up_returns[k] => up_selected[k] \in up_local
  /\ up_pc = "done" => Len(up_returns) = Len(up_selected)

\* C29 (as claimed): two distinct selected files that were both uploaded went
\* to distinct repository paths.
C29_DistinctRepoPaths ==
  \A j, k \in 1..Len(up_returns) :
    (j # k /\ up_returns[j] /\ up_returns[k]) =>
      repo_file_path(up_target, up_selected[j]) # repo_file_path(up_target, up_selected[k])

(***************************************************************************)
(* The Review page: the list translated_paragraphs and the buttons that    *)
(* add and delete paragraphs.  Indexes are the code's, counted from 0.     *)
(***************************************************************************)
MaxParagraphs == 3
MaxListLen == 5

\* split_into_paragraphs of a translated file with n paragraphs
Paragraphs(n) == [k \in 1..n |-> <<"t", k>>]

\* list.insert(index, x): beyond the end it appends
ListInsert(l, index, x) ==
  LET p == IF index > Len(l) THEN Len(l) ELSE index
  IN SubSeq(l, 1, p) \o <<x>> \o SubSeq(l, p + 1, Len(l))

\* list.pop(index) for 0 <= index < len(l)
ListPop(l, index) == SubSeq(l, 1, index) \o SubSeq(l, index + 2, Len(l))

\* add_paragraph_after (lines 47-48)
add_paragraph_after(l, index) == ListInsert(l, index + 1, <<>>)

\* delete_paragraph (lines 50-52): pop raises IndexError for an index beyond the list
delete_paragraph(l, index) ==
  IF Len(l) > 0
  THEN IF index < Len(l)
       THEN [error |-> "none", list |-> ListPop(l, index)]
       ELSE [error |-> "IndexError", list |-> l]
  ELSE [error |-> "none", list |-> l]

NoClick == [op |-> "none", index |-> 0]

RevInit ==
  /\ v_sources \in 0..MaxParagraphs
  /\ \E n \in 0..MaxParagraphs : v_translated = Paragraphs(n)
  /\ v_before = <<>>
  /\ v_click = NoClick
  /\ v_error = "none"
  /\ v_pc = "shown"

\* lines 125-127: the button that adds a paragraph at the end
RevAddFinal ==
  /\ v_pc = "shown"
  /\ Len(v_translated) < MaxListLen
  /\ v_before' = v_translated
  /\ v_click' = [op |-> "add_final", index |-> Len(v_translated) - 1]
  /\ v_translated' = add_paragraph_after(v_translated, Len(v_translated) - 1)
  /\ v_error' = "none"
  /\ UNCHANGED <<v_sources, v_pc>>
  /\ UNCHANGED core_vars /\ PagesUnchangedExcept("rev")

\* lines 147-149: the add button in the row of source paragraph index
RevAdd ==
  /\ v_pc = "shown"
  /\ Len(v_translated) < MaxListLen
  /\ \E index \in 0..(v_sources - 1) :
       /\ v_click' = [op |-> "add", index |-> index]
       /\ v_translated' = add_paragraph_after(v_translated, index)
  /\ v_before' = v_translated
  /\ v_error' = "none"
  /\ UNCHANGED <<v_sources, v_pc>>
  /\ UNCHANGED core_vars /\ PagesUnchangedExcept("rev")

\* lines 151-153: the delete button in the row of source paragraph index; an
\* exception ends the run of the page in the handler of lines 190-192
RevDelete ==
  /\ v_pc = "shown"
  /\ \E index \in 0..(v_sources - 1) :
       LET r == delete_paragraph(v_translated, index)
       IN /\ v_click' = [op |-> "delete", index |-> index]
          /\ v_translated' = r.list
          /\ v_error' = r.error
  /\ v_before' = v_translated
  /\ UNCHANGED <<v_sources, v_pc>>
  /\ UNCHANGED core_vars /\ PagesUnchangedExcept("rev")

\* lines 156-163: the user edits the text area of a row
RevEdit ==
  /\ v_pc = "shown"
  /\ \E index \in 0..(v_sources - 1) :
       /\ index < Len(v_translated)
       /\ v_translated' = [v_translated EXCEPT ![index + 1] = <<"e">>]
       /\ v_click' = [op |-> "edit", index |-> index]
  /\ v_before' = v_translated
  /\ v_error' = "none"
  /\ UNCHANGED <<v_sources, v_pc>>
  /\ UNCHANGED core_vars /\ PagesUnchangedExcept("rev")

RevNext ==
  \/ RevAddFinal
  \/ RevAdd
  \/ RevDelete
  \/ RevEdit

InitRev == RevInit /\ CoreIdle /\ PagesIdleExcept("rev")

SpecRev == InitRev /\ [][RevNext]_vars

\* C30 (as claimed): a delete click calls delete_paragraph with an index
\* within the list as it was, nothing is raised and the list is shorter by
\* one; an add click makes the list longer by one, the new element is empty
\* and stands right after the clicked position, the rest keeps its order.
C30_ClicksInRange ==
  /\ v_click.op = "delete" =>
       /\ v_click.index < Len(v_before)
       /\ v_error = "none"
       /\ Len(v_translated) = Len(v_before) - 1
  /\ v_click.op \in {"add", "add_final"} =>
       /\ Len(v_translated) = Len(v_before) + 1
       /\ v_click.index + 2 <= Len(v_translated)
       /\ v_translated[v_click.index + 2] = <<>>
       /\ ListPop(v_translated, v_click.index + 1) = v_before

====
